---- MODULE Spec2Model ----
(***************************************************************************)
(* Conversation segmentation and retrieval-document construction of the    *)
(* WhatsApp chat pipeline (teste.py, rag.py, app.py).                      *)
(*                                                                         *)
(* Strings of the program are sequences of one-character strings, so that  *)
(* stripping, lower-casing, pattern matching and timestamp parsing are     *)
(* computed on the characters as the code computes them.                   *)
(***************************************************************************)
EXTENDS Integers, Sequences, FiniteSets, TLC

\* ------------------------------------------------------------------------
\* Characters and strings
\* ------------------------------------------------------------------------

Digits == {"0", "1", "2", "3", "4", "5", "6", "7", "8", "9"}

\* the characters matched by \s and removed by str.strip()
Whitespace == {" ", "\t", "\n"}

\* int() of one decimal digit
DigitVal(c) ==
    CASE c = "0" -> 0 [] c = "1" -> 1 [] c = "2" -> 2 [] c = "3" -> 3
      [] c = "4" -> 4 [] c = "5" -> 5 [] c = "6" -> 6 [] c = "7" -> 7
      [] c = "8" -> 8 [] c = "9" -> 9

\* s[p] is a character of the set cs (p is 1-based; past the end: no)
In(s, p, cs) == p >= 1 /\ p <= Len(s) /\ s[p] \in cs

IsD(s, p) == In(s, p, Digits)

\* int() of the n digits of s that start at position p
RECURSIVE IntOf(_, _, _)
IntOf(s, p, n) ==
    IF n = 0 THEN 0 ELSE IntOf(s, p, n - 1) * 10 + DigitVal(s[p + n - 1])

\* number of leading / trailing whitespace characters of s
RECURSIVE LeadWs(_, _)
LeadWs(s, p) == IF In(s, p, Whitespace) THEN 1 + LeadWs(s, p + 1) ELSE 0

RECURSIVE TrailWs(_, _)
TrailWs(s, p) == IF In(s, p, Whitespace) THEN 1 + TrailWs(s, p - 1) ELSE 0

\* str.strip()
strip(s) ==
    LET a == LeadWs(s, 1)
    IN  IF a = Len(s) THEN << >>
        ELSE SubSeq(s, a + 1, Len(s) - TrailWs(s, Len(s)))

\* ------------------------------------------------------------------------
\* datetime
\* ------------------------------------------------------------------------

\* the value None of Optional[datetime]
None == [ok |-> FALSE, year |-> 0, month |-> 0, day |-> 0,
         hour |-> 0, minute |-> 0, second |-> 0, microsecond |-> 0]

IsLeap(y) == (y % 4 = 0 /\ y % 100 # 0) \/ y % 400 = 0

DaysInMonth(y, m) ==
    IF m = 2 THEN (IF IsLeap(y) THEN 29 ELSE 28)
    ELSE IF m \in {4, 6, 9, 11} THEN 30 ELSE 31

\* datetime(year, month, day, hour, minute, second, microsecond) raises
\* ValueError outside these ranges
ValidDateTime(y, m, d, H, M, S, f) ==
    /\ y >= 1 /\ y <= 9999
    /\ m >= 1 /\ m <= 12
    /\ d >= 1 /\ d <= DaysInMonth(y, m)
    /\ H >= 0 /\ H <= 23
    /\ M >= 0 /\ M <= 59
    /\ S >= 0 /\ S <= 59
    /\ f >= 0 /\ f <= 999999

\* the datetime constructor; None stands for the ValueError, which every
\* caller in parse_timestamp catches
datetime(y, m, d, H, M, S, f) ==
    IF ValidDateTime(y, m, d, H, M, S, f)
    THEN [ok |-> TRUE, year |-> y, month |-> m, day |-> d,
          hour |-> H, minute |-> M, second |-> S, microsecond |-> f]
    ELSE None

\* days before the first of month m in year y
RECURSIVE DaysBeforeMonth(_, _)
DaysBeforeMonth(y, m) ==
    IF m = 1 THEN 0 ELSE DaysBeforeMonth(y, m - 1) + DaysInMonth(y, m - 1)

\* proleptic Gregorian ordinal of a date (date.toordinal)
toordinal(t) ==
    LET y == t.year - 1
    IN  y * 365 + (y \div 4) - (y \div 100) + (y \div 400)
          + DaysBeforeMonth(t.year, t.month) + t.day

SecondOfDay(t) == t.hour * 3600 + t.minute * 60 + t.second

\* ------------------------------------------------------------------------
\* datetime.strptime, as parse_timestamp uses it
\* ------------------------------------------------------------------------

\* str.lower() of one character, for the ASCII letters of the model
UpperLetters == <<"A", "B", "C", "D", "E", "F", "G", "H", "I", "J", "K", "L",
                  "M", "N", "O", "P", "Q", "R", "S", "T", "U", "V", "W", "X",
                  "Y", "Z">>
LowerLetters == <<"a", "b", "c", "d", "e", "f", "g", "h", "i", "j", "k", "l",
                  "m", "n", "o", "p", "q", "r", "s", "t", "u", "v", "w", "x",
                  "y", "z">>

LowerChar(c) ==
    IF \E k \in 1..Len(UpperLetters) : UpperLetters[k] = c
    THEN LowerLetters[CHOOSE k \in 1..Len(UpperLetters) : UpperLetters[k] = c]
    ELSE c

\* number of consecutive digits of s from position p on
RECURSIVE DigitRun(_, _)
DigitRun(s, p) == IF IsD(s, p) THEN 1 + DigitRun(s, p + 1) ELSE 0

\* <<n, n-1, ..., 1>>: the lengths a greedy repetition tries, longest first
RECURSIVE Downto(_)
Downto(n) == IF n <= 0 THEN << >> ELSE <<n>> \o Downto(n - 1)

Min(a, b) == IF a <= b THEN a ELSE b

If1(c, n) == IF c THEN <<n>> ELSE << >>

NonZero == Digits \ {"0"}

\* The lengths of the matches of one element of a format at position p of
\* s, in the order the regular expression of the directive tries them
\* (_strptime.TimeRE); a blank of the format is \s+, any other character
\* matches itself, case-insensitively.
Alts(tok, s, p) ==
    CASE tok = "%d" ->
            If1(In(s, p, {"3"}) /\ In(s, p + 1, {"0", "1"}), 2)
         \o If1(In(s, p, {"1", "2"}) /\ IsD(s, p + 1), 2)
         \o If1(In(s, p, {"0"}) /\ In(s, p + 1, NonZero), 2)
         \o If1(In(s, p, NonZero), 1)
         \o If1(In(s, p, {" "}) /\ In(s, p + 1, NonZero), 2)
      [] tok = "%m" ->
            If1(In(s, p, {"1"}) /\ In(s, p + 1, {"0", "1", "2"}), 2)
         \o If1(In(s, p, {"0"}) /\ In(s, p + 1, NonZero), 2)
         \o If1(In(s, p, NonZero), 1)
      [] tok = "%Y" -> If1(DigitRun(s, p) >= 4, 4)
      [] tok = "%y" -> If1(DigitRun(s, p) >= 2, 2)
      [] tok = "%H" ->
            If1(In(s, p, {"2"}) /\ In(s, p + 1, {"0", "1", "2", "3"}), 2)
         \o If1(In(s, p, {"0", "1"}) /\ IsD(s, p + 1), 2)
         \o If1(IsD(s, p), 1)
      [] tok = "%M" ->
            If1(In(s, p, {"0", "1", "2", "3", "4", "5"}) /\ IsD(s, p + 1), 2)
         \o If1(IsD(s, p), 1)
      [] tok = "%S" ->
            If1(In(s, p, {"6"}) /\ In(s, p + 1, {"0", "1"}), 2)
         \o If1(In(s, p, {"0", "1", "2", "3", "4", "5"}) /\ IsD(s, p + 1), 2)
         \o If1(IsD(s, p), 1)
      [] tok = "%f" -> Downto(Min(6, DigitRun(s, p)))
      [] tok = " "  -> Downto(LeadWs(s, p))
      [] OTHER -> If1(p <= Len(s) /\ LowerChar(s[p]) = LowerChar(tok), 1)

\* int() of the n characters matched by a directive (%d may match " 5")
NumVal(s, p, n) ==
    IF s[p] = " " THEN IntOf(s, p + 1, n - 1) ELSE IntOf(s, p, n)

RECURSIVE Pow10(_)
Pow10(n) == IF n = 0 THEN 1 ELSE 10 * Pow10(n - 1)

\* the fields _strptime starts from before it reads the groups
StrptimeDefaults ==
    [year |-> 1900, month |-> 1, day |-> 1,
     hour |-> 0, minute |-> 0, second |-> 0, microsecond |-> 0]

\* the field a matched directive sets (_strptime's loop over the groups)
Bind(acc, tok, s, p, n) ==
    CASE tok = "%d" -> [acc EXCEPT !.day = NumVal(s, p, n)]
      [] tok = "%m" -> [acc EXCEPT !.month = NumVal(s, p, n)]
      [] tok = "%Y" -> [acc EXCEPT !.year = NumVal(s, p, n)]
      [] tok = "%y" ->
            LET y == NumVal(s, p, n)
            IN  [acc EXCEPT !.year = IF y <= 68 THEN y + 2000 ELSE y + 1900]
      [] tok = "%H" -> [acc EXCEPT !.hour = NumVal(s, p, n)]
      [] tok = "%M" -> [acc EXCEPT !.minute = NumVal(s, p, n)]
      [] tok = "%S" -> [acc EXCEPT !.second = NumVal(s, p, n)]
      [] tok = "%f" ->
            [acc EXCEPT !.microsecond = NumVal(s, p, n) * Pow10(6 - n)]
      [] OTHER -> acc

NoMatch == [ok |-> FALSE, end |-> 0, g |-> StrptimeDefaults]

\* format_regex.match(data_string): the first match in backtracking order
\* of the elements k.. of the format at position p
RECURSIVE MatchFrom(_, _, _, _, _)
RECURSIVE TryAlts(_, _, _, _, _, _, _)
MatchFrom(fmt, k, s, p, acc) ==
    IF k > Len(fmt) THEN [ok |-> TRUE, end |-> p, g |-> acc]
    ELSE TryAlts(fmt, k, s, p, acc, Alts(fmt[k], s, p), 1)

TryAlts(fmt, k, s, p, acc, alts, j) ==
    IF j > Len(alts) THEN NoMatch
    ELSE LET n == alts[j]
             r == MatchFrom(fmt, k + 1, s, p + n, Bind(acc, fmt[k], s, p, n))
         IN  IF r.ok THEN r ELSE TryAlts(fmt, k, s, p, acc, alts, j + 1)

\* the datetime of the match r of a string of n characters; None stands
\* for the ValueError (no match, unconverted data remains, or a date or
\* time out of range)
StrptimeResult(r, n) ==
    IF ~r.ok \/ r.end # n + 1 THEN None
    ELSE datetime(r.g.year, r.g.month, r.g.day,
                  r.g.hour, r.g.minute, r.g.second, r.g.microsecond)

\* datetime.strptime(s, fmt)
strptime(s, fmt) ==
    StrptimeResult(MatchFrom(fmt, 1, s, 1, StrptimeDefaults), Len(s))

\* the list formats of parse_timestamp, in its order
formats == <<
    <<"%d", "/", "%m", "/", "%Y", ",", " ", "%H", ":", "%M">>,
    <<"%d", "/", "%m", "/", "%y", ",", " ", "%H", ":", "%M">>,
    <<"%m", "/", "%d", "/", "%Y", ",", " ", "%H", ":", "%M">>,
    <<"%Y", "-", "%m", "-", "%d", " ", "%H", ":", "%M", ":", "%S">>,
    <<"%d", "-", "%m", "-", "%Y", " ", "%H", ":", "%M">>,
    <<"%d", "/", "%m", "/", "%Y", " ", "%H", ":", "%M", ":", "%S">>,
    <<"%Y", "-", "%m", "-", "%d", "T", "%H", ":", "%M", ":", "%S">>,
    <<"%Y", "-", "%m", "-", "%d", "T", "%H", ":", "%M", ":", "%S", ".", "%f">>
>>

\* the datetime t when it parsed, else the next attempt
OrElse(t, next) == IF t.ok THEN t ELSE next

\* the loop over formats: the first format that parses wins
RECURSIVE TryFormats(_, _)
TryFormats(s, k) ==
    IF k > Len(formats) THEN None
    ELSE OrElse(strptime(s, formats[k]), TryFormats(s, k + 1))

DateSep == {"/", "-"}

\* re.search(r'(\d{1,2})[/\-](\d{1,2})[/\-](\d{2,4})'): the match that
\* starts at position q, if there is one
DateAt(s, q) ==
    LET n1 == IF IsD(s, q) /\ IsD(s, q + 1) /\ In(s, q + 2, DateSep) THEN 2
              ELSE IF IsD(s, q) /\ In(s, q + 1, DateSep) THEN 1 ELSE 0
        q2 == q + n1 + 1
        n2 == IF IsD(s, q2) /\ IsD(s, q2 + 1) /\ In(s, q2 + 2, DateSep) THEN 2
              ELSE IF IsD(s, q2) /\ In(s, q2 + 1, DateSep) THEN 1 ELSE 0
        q3 == q2 + n2 + 1
        n3 == Min(4, DigitRun(s, q3))
    IN  IF n1 = 0 \/ n2 = 0 \/ n3 < 2 THEN [ok |-> FALSE, g |-> <<0, 0, 0>>]
        ELSE [ok |-> TRUE,
              g |-> <<IntOf(s, q, n1), IntOf(s, q2, n2), IntOf(s, q3, n3)>>]

\* re.search(r'(\d{1,2}):(\d{2})'): the match that starts at position q
TimeAt(s, q) ==
    LET n1 == IF IsD(s, q) /\ IsD(s, q + 1) /\ In(s, q + 2, {":"}) THEN 2
              ELSE IF IsD(s, q) /\ In(s, q + 1, {":"}) THEN 1 ELSE 0
        q2 == q + n1 + 1
    IN  IF n1 = 0 \/ DigitRun(s, q2) < 2 THEN [ok |-> FALSE, g |-> <<0, 0>>]
        ELSE [ok |-> TRUE, g |-> <<IntOf(s, q, n1), IntOf(s, q2, 2)>>]

\* re.search: the leftmost match
RECURSIVE DateSearch(_, _)
DateSearch(s, q) ==
    IF q > Len(s) THEN [ok |-> FALSE, g |-> <<0, 0, 0>>]
    ELSE IF DateAt(s, q).ok THEN DateAt(s, q) ELSE DateSearch(s, q + 1)

RECURSIVE TimeSearch(_, _)
TimeSearch(s, q) ==
    IF q > Len(s) THEN [ok |-> FALSE, g |-> <<0, 0>>]
    ELSE IF TimeAt(s, q).ok THEN TimeAt(s, q) ELSE TimeSearch(s, q + 1)

\* the fallback of parse_timestamp: the datetime of the two regex matches
FromMatches(date_match, time_match) ==
    IF date_match.ok /\ time_match.ok
    THEN LET day   == date_match.g[1]
             month == date_match.g[2]
             yr    == date_match.g[3]
             year  == IF yr < 100 THEN yr + 2000 ELSE yr
         IN  datetime(year, month, day,
                      time_match.g[1], time_match.g[2], 0, 0)
    ELSE None

\* WhatsAppProcessor.parse_timestamp
parse_timestamp(timestamp_str) ==
    IF timestamp_str = << >> THEN None
    ELSE OrElse(TryFormats(strip(timestamp_str), 1),
                FromMatches(DateSearch(timestamp_str, 1),
                            TimeSearch(timestamp_str, 1)))

\* current_time - last_time: a timedelta, normalised as Python keeps it
\* (0 <= seconds < 86400, 0 <= microseconds < 1000000, days any sign)
timedelta(current_time, last_time) ==
    LET d0 == toordinal(current_time) - toordinal(last_time)
        s0 == SecondOfDay(current_time) - SecondOfDay(last_time)
        u0 == current_time.microsecond - last_time.microsecond
        s1 == IF u0 < 0 THEN s0 - 1 ELSE s0
        u1 == IF u0 < 0 THEN u0 + 1000000 ELSE u0
        d1 == IF s1 < 0 THEN d0 - 1 ELSE d0
        s2 == IF s1 < 0 THEN s1 + 86400 ELSE s1
    IN  [days |-> d1, seconds |-> s2, microseconds |-> u1]

\* the threshold of "time_gap > 24", in hours
GapHours == 24

\* HoursExceed with >= in place of >
HoursExceed_AtLeast(td, h) ==
    IF td.days < 0 THEN FALSE
    ELSE IF td.days > (h \div 24) + 1 THEN TRUE
    ELSE td.days * 86400 + td.seconds >= h * 3600

\* td.total_seconds() / 3600 > h, without leaving 32-bit integers
HoursExceed(td, h) ==
    IF td.days < 0 THEN FALSE
    ELSE IF td.days > (h \div 24) + 1 THEN TRUE
    ELSE LET secs == td.days * 86400 + td.seconds
         IN  secs > h * 3600 \/ (secs = h * 3600 /\ td.microseconds > 0)

\* ------------------------------------------------------------------------
\* State
\* ------------------------------------------------------------------------

VARIABLES
    prog,                  \* the entry point that runs on the input
    pc,                    \* position in that entry point
    messages,              \* argument `messages`: the normalized messages
    i,                     \* loop variable of the running loop
    current_conversation,  \* accumulator of the boundary detector
    conversations,         \* segments emitted so far
    chunk_size, overlap,   \* arguments of create_overlapping_chunks
    chunks,                \* windows emitted so far
    data,                  \* the raw records of the transcript
    conversation_window,   \* accumulator of preprocess_whatsapp_data
    last_timestamp,        \* rag.py: timestamp of the last kept record
    conversation_id,       \* counter of the documents of the simple mode
    documents,             \* documents emitted so far
    participants,          \* app.py: authors seen by preprocess_whatsapp_data
    run,                   \* number of the call of the detector: 1 or 2
    previous,              \* what the first call of the detector returned
    valid_messages,        \* teste.py: the normalized messages
    doc_id,                \* teste.py: counter of the documents
    vector_db,             \* the handle of the store, once it is created
    store,                 \* the documents the external store holds
    calls,                 \* the calls made to the external store
    returned,              \* the value the run returned, once it has
    log,                   \* the error lines the run printed
    text,                  \* argument of extract_keywords, of parse_timestamp
    keywords,              \* result of extract_keywords
    parsed_time,           \* result of parse_timestamp
    chatbot,               \* app.py: the global chatbot
    db,                    \* app.py: the global db
    initialization_error,  \* app.py: the global initialization_error
    conversation_stats,    \* app.py: is_loaded and error_message of the
                           \* global conversation_stats
    requests               \* app.py: the threads that run
                           \* initialize_chatbot_sync

boundaryVars == <<current_conversation, conversations>>

chunkVars == <<chunk_size, overlap, chunks>>

simpleVars == <<data, conversation_window, last_timestamp, conversation_id,
                documents, participants>>

runVars == <<run, previous>>

databaseVars == <<valid_messages, doc_id>>

storeVars == <<vector_db, store, calls, returned, log>>

keywordVars == <<text, keywords, parsed_time>>

serverVars ==
    <<chatbot, db, initialization_error, conversation_stats, requests>>

pipelineVars == <<databaseVars, storeVars, keywordVars, serverVars>>

vars == <<prog, pc, messages, i, boundaryVars, chunkVars, simpleVars,
          runVars, pipelineVars>>

\* ------------------------------------------------------------------------
\* detect_conversation_boundaries_conservative
\* ------------------------------------------------------------------------

\* the minimum length of an emitted segment or window
MinConversation == 5

\* the size cap of the accumulator
MaxConversation == 100

\* the number of trailing messages whose authors are `recent_authors`
RecentWindow == 20

\* seq[-n:]
LastN(seq, n) ==
    IF Len(seq) <= n THEN seq ELSE SubSeq(seq, Len(seq) - n + 1, Len(seq))

\* TemporalGap that takes a missing last time for the earliest datetime
TemporalGap_Unguarded(message, last_msg) ==
    LET current_time == parse_timestamp(message.timestamp)
        parsed       == parse_timestamp(last_msg.timestamp)
        last_time    == IF parsed.ok THEN parsed
                        ELSE datetime(1, 1, 1, 0, 0, 0, 0)
    IN  /\ current_time.ok
        /\ HoursExceed(timedelta(current_time, last_time), GapHours)

\* rule 1: both times parsed and more than 24 hours apart
TemporalGap(message, last_msg) ==
    LET current_time == parse_timestamp(message.timestamp)
        last_time    == parse_timestamp(last_msg.timestamp)
    IN  /\ current_time.ok
        /\ last_time.ok
        /\ HoursExceed(timedelta(current_time, last_time), GapHours)

\* SizeCap that never splits
SizeCap_Never(conv) == FALSE

\* SizeCap that allows one message more
SizeCap_OffByOne(conv) == Len(conv) > MaxConversation + 1

\* rule 2: the accumulator holds more than 100 messages
SizeCap(conv) == Len(conv) > MaxConversation

\* recent_authors over the whole accumulator
recent_authors_All(conv) == {conv[k].author : k \in 1..Len(conv)}

\* rule 3: more than 2 recent authors and the incoming author is not one
recent_authors(conv) ==
    {LastN(conv, RecentWindow)[k].author :
        k \in 1..Len(LastN(conv, RecentWindow))}

ParticipantShift(message, conv) ==
    /\ Cardinality(recent_authors(conv)) > 2
    /\ message.author \notin recent_authors(conv)

should_split(message, conv) ==
    \/ TemporalGap(message, conv[Len(conv)])
    \/ SizeCap(conv)
    \/ ParticipantShift(message, conv)

\* BoundaryCall that keeps the lists of the previous call
BoundaryCall_KeepsState ==
    /\ prog = "boundaries"
    /\ pc = "call"
    /\ i' = 0
    /\ pc' = IF messages = << >> THEN "done" ELSE "loop"
    /\ UNCHANGED <<prog, messages, boundaryVars, chunkVars, simpleVars,
                   runVars, pipelineVars>>

\* lines 110-116: the call; an empty list returns [] at once
BoundaryCall ==
    /\ prog = "boundaries"
    /\ pc = "call"
    /\ current_conversation' = << >>
    /\ conversations' = << >>
    /\ i' = 0
    /\ pc' = IF messages = << >> THEN "done" ELSE "loop"
    /\ UNCHANGED <<prog, messages, chunkVars, simpleVars, runVars, pipelineVars>>

\* BoundaryStep that starts the new accumulator empty on a split
BoundaryStep_DropsTrigger ==
    /\ prog = "boundaries"
    /\ pc = "loop"
    /\ i < Len(messages)
    /\ LET message == messages[i + 1]
       IN  IF current_conversation = << >>
           THEN /\ current_conversation' = <<message>>
                /\ UNCHANGED conversations
           ELSE IF /\ should_split(message, current_conversation)
                   /\ Len(current_conversation) >= MinConversation
                THEN /\ conversations' =
                            Append(conversations, current_conversation)
                     /\ current_conversation' = << >>
                ELSE /\ current_conversation' =
                            Append(current_conversation, message)
                     /\ UNCHANGED conversations
    /\ i' = i + 1
    /\ UNCHANGED <<prog, pc, messages, chunkVars, simpleVars, runVars, pipelineVars>>

\* BoundaryStep that splits on a rule or on the minimum length
BoundaryStep_OrMin ==
    /\ prog = "boundaries"
    /\ pc = "loop"
    /\ i < Len(messages)
    /\ LET message == messages[i + 1]
       IN  IF current_conversation = << >>
           THEN /\ current_conversation' = <<message>>
                /\ UNCHANGED conversations
           ELSE IF \/ should_split(message, current_conversation)
                   \/ Len(current_conversation) >= MinConversation
                THEN /\ conversations' =
                            Append(conversations, current_conversation)
                     /\ current_conversation' = <<message>>
                ELSE /\ current_conversation' =
                            Append(current_conversation, message)
                     /\ UNCHANGED conversations
    /\ i' = i + 1
    /\ UNCHANGED <<prog, pc, messages, chunkVars, simpleVars, runVars, pipelineVars>>

\* lines 118-153: one iteration of the loop over messages (i is 0-based)
BoundaryStep ==
    /\ prog = "boundaries"
    /\ pc = "loop"
    /\ i < Len(messages)
    /\ LET message == messages[i + 1]
       IN  IF current_conversation = << >>
           THEN /\ current_conversation' = <<message>>
                /\ UNCHANGED conversations
           ELSE IF /\ should_split(message, current_conversation)
                   /\ Len(current_conversation) >= MinConversation
                THEN /\ conversations' =
                            Append(conversations, current_conversation)
                     /\ current_conversation' = <<message>>
                ELSE /\ current_conversation' =
                            Append(current_conversation, message)
                     /\ UNCHANGED conversations
    /\ i' = i + 1
    /\ UNCHANGED <<prog, pc, messages, chunkVars, simpleVars, runVars, pipelineVars>>

\* the detector is called a second time on the same list by the same
\* processor; the locals of the first call are still in memory
BoundaryAgain ==
    /\ prog = "boundaries"
    /\ pc = "done"
    /\ run = 1
    /\ previous' = conversations
    /\ run' = 2
    /\ pc' = "call"
    /\ UNCHANGED <<prog, messages, i, boundaryVars, chunkVars, simpleVars,
                   pipelineVars>>

\* BoundaryFlush without the minimum length of the last accumulator
BoundaryFlush_NoMin ==
    /\ prog = "boundaries"
    /\ pc = "loop"
    /\ i = Len(messages)
    /\ conversations' = Append(conversations, current_conversation)
    /\ pc' = "done"
    /\ UNCHANGED <<prog, messages, i, current_conversation,
                   chunkVars, simpleVars, runVars, pipelineVars>>

\* lines 155-160: after the loop, the last accumulator is kept if it has
\* the minimum length, and the segments are returned
BoundaryFlush ==
    /\ prog = "boundaries"
    /\ pc = "loop"
    /\ i = Len(messages)
    /\ conversations' =
          IF Len(current_conversation) >= MinConversation
          THEN Append(conversations, current_conversation)
          ELSE conversations
    /\ pc' = "done"
    /\ UNCHANGED <<prog, messages, i, current_conversation,
                   chunkVars, simpleVars, runVars, pipelineVars>>

\* ------------------------------------------------------------------------
\* create_overlapping_chunks
\* ------------------------------------------------------------------------

\* seq[a:b] for 0 <= a and 0 <= b
Slice(seq, a, b) == SubSeq(seq, a + 1, Min(b, Len(seq)))

\* lines 164-169: the call; an empty list returns [] at once
ChunkCall ==
    /\ prog = "chunks"
    /\ pc = "call"
    /\ chunks' = << >>
    /\ i' = 0
    /\ pc' = IF messages = << >> THEN "done" ELSE "loop"
    /\ UNCHANGED <<prog, messages, boundaryVars, chunk_size, overlap,
                   simpleVars, runVars, pipelineVars>>

\* ChunkStep that advances the cursor by the window size
ChunkStep_NoOverlap ==
    /\ prog = "chunks"
    /\ pc = "loop"
    /\ i < Len(messages)
    /\ LET chunk == Slice(messages, i, i + chunk_size)
       IN  chunks' = IF Len(chunk) >= MinConversation
                     THEN Append(chunks, chunk)
                     ELSE chunks
    /\ i' = i + chunk_size
    /\ UNCHANGED <<prog, pc, messages, boundaryVars, chunk_size, overlap,
                   simpleVars, runVars, pipelineVars>>

\* ChunkStep that keeps only the windows of more than 5 messages
ChunkStep_MinStrict ==
    /\ prog = "chunks"
    /\ pc = "loop"
    /\ i < Len(messages)
    /\ LET chunk == Slice(messages, i, i + chunk_size)
       IN  chunks' = IF Len(chunk) > MinConversation
                     THEN Append(chunks, chunk)
                     ELSE chunks
    /\ i' = i + (chunk_size - overlap)
    /\ UNCHANGED <<prog, pc, messages, boundaryVars, chunk_size, overlap,
                   simpleVars, runVars, pipelineVars>>

\* ChunkStep that advances the cursor by size + overlap
ChunkStep_StepPlus ==
    /\ prog = "chunks"
    /\ pc = "loop"
    /\ i < Len(messages)
    /\ LET chunk == Slice(messages, i, i + chunk_size)
       IN  chunks' = IF Len(chunk) >= MinConversation
                     THEN Append(chunks, chunk)
                     ELSE chunks
    /\ i' = i + (chunk_size + overlap)
    /\ UNCHANGED <<prog, pc, messages, boundaryVars, chunk_size, overlap,
                   simpleVars, runVars, pipelineVars>>

\* lines 171-174: one iteration of range(0, len(messages), size - overlap)
ChunkStep ==
    /\ prog = "chunks"
    /\ pc = "loop"
    /\ i < Len(messages)
    /\ LET chunk == Slice(messages, i, i + chunk_size)
       IN  chunks' = IF Len(chunk) >= MinConversation
                     THEN Append(chunks, chunk)
                     ELSE chunks
    /\ i' = i + (chunk_size - overlap)
    /\ UNCHANGED <<prog, pc, messages, boundaryVars, chunk_size, overlap,
                   simpleVars, runVars, pipelineVars>>

\* lines 176-177: the range is exhausted, the windows are returned
ChunkReturn ==
    /\ prog = "chunks"
    /\ pc = "loop"
    /\ i >= Len(messages)
    /\ pc' = "done"
    /\ UNCHANGED <<prog, messages, i, boundaryVars, chunkVars, simpleVars, runVars, pipelineVars>>

\* ------------------------------------------------------------------------
\* preprocess_whatsapp_data (simple mode: rag.py and app.py)
\* ------------------------------------------------------------------------

\* str.lower()
Lower(s) == [k \in 1..Len(s) |-> LowerChar(s[k])]

\* sub occurs in s at position p
OccursAt(sub, s, p) ==
    /\ p + Len(sub) - 1 <= Len(s)
    /\ \A k \in 1..Len(sub) : s[p + k - 1] = sub[k]

\* sub in s
Contains(sub, s) == \E p \in 1..(Len(s) + 1) : OccursAt(sub, s, p)

\* 'mensagem apagada'
s_mensagem_apagada ==
    <<"m", "e", "n", "s", "a", "g", "e", "m", " ", "a", "p", "a", "g", "a",
    "d", "a">>

\* 'media omitted'
s_media_omitted ==
    <<"m", "e", "d", "i", "a", " ", "o", "m", "i", "t", "t", "e", "d">>

\* 'audio omitted'
s_audio_omitted ==
    <<"a", "u", "d", "i", "o", " ", "o", "m", "i", "t", "t", "e", "d">>

\* 'image omitted'
s_image_omitted ==
    <<"i", "m", "a", "g", "e", " ", "o", "m", "i", "t", "t", "e", "d">>

\* 'document omitted'
s_document_omitted ==
    <<"d", "o", "c", "u", "m", "e", "n", "t", " ", "o", "m", "i", "t", "t",
    "e", "d">>

\* 'video omitted'
s_video_omitted ==
    <<"v", "i", "d", "e", "o", " ", "o", "m", "i", "t", "t", "e", "d">>

\* the list system_messages of preprocess_whatsapp_data
simple_system_messages ==
    <<s_mensagem_apagada, s_media_omitted, s_audio_omitted,
      s_image_omitted, s_document_omitted, s_video_omitted>>

\* any(sys_msg in message.lower() for sys_msg in system_messages)
IsSimpleSystemMessage(message) ==
    \E k \in 1..Len(simple_system_messages) :
        Contains(simple_system_messages[k], Lower(message))

\* minimum length of the stripped text of a record of the simple mode
SimpleMinText == 3

\* minimum number of messages of a document of the simple mode
SimpleMinWindow == 3

\* rag.py: a window of more than 20 messages is closed
SimpleMaxWindow == 20

\* app.py: a document is created every 10 messages
AppWindow == 10

\* the characters the first re.sub of clean_message keeps: \w, \s and
\* . , ! ? ; : ( ) -   (the accented letters are outside the model)
KeptChars ==
    {UpperLetters[k] : k \in 1..Len(UpperLetters)}
        \cup {LowerLetters[k] : k \in 1..Len(LowerLetters)}
        \cup Digits \cup {"_"} \cup Whitespace
        \cup {".", ",", "!", "?", ";", ":", "(", ")", "-"}

\* re.sub(r'\s+', ' ', s)
RECURSIVE CollapseWs(_)
CollapseWs(s) ==
    IF s = << >> THEN << >>
    ELSE IF Head(s) \in Whitespace
         THEN <<" ">> \o CollapseWs(SubSeq(s, LeadWs(s, 1) + 1, Len(s)))
         ELSE <<Head(s)>> \o CollapseWs(Tail(s))

\* clean_message of rag.py and app.py
simple_clean_message(message) ==
    strip(CollapseWs([k \in 1..Len(message) |->
            IF message[k] \in KeptChars THEN message[k] ELSE " "]))

\* str() of a natural number
RECURSIVE str(_)
str(n) ==
    IF n < 10 THEN <<CHOOSE c \in Digits : DigitVal(c) = n>>
    ELSE str(n \div 10) \o <<CHOOSE c \in Digits : DigitVal(c) = n % 10>>

\* the orders in which list(set(authors)) can list the authors of msgs
AuthorOrders(msgs) ==
    LET as == {msgs[k].author : k \in 1..Len(msgs)}
    IN  {o \in [1..Cardinality(as) -> as] :
            \A a \in as : \E k \in 1..Cardinality(as) : o[k] = a}

\* the values a metadata dict holds: a str and an int
PyStr(s) == [py |-> "str", v |-> s]

PyInt(n) == [py |-> "int", v |-> n]

\* ', '.join(names): the string as the sequence of its pieces, the names
\* and the separators between them
RECURSIVE JoinNames(_)
JoinNames(names) ==
    IF Len(names) <= 1 THEN names
    ELSE <<Head(names), ", ">> \o JoinNames(Tail(names))

\* ', '.join(words) of a list of strings
RECURSIVE JoinStrings(_)
JoinStrings(words) ==
    IF words = << >> THEN << >>
    ELSE IF Len(words) = 1 THEN Head(words)
    ELSE Head(words) \o <<",", " ">> \o JoinStrings(Tail(words))

\* create_conversation_context: the header fields and one line for each
\* message whose cleaned text is not empty; ps is list(set(authors))
create_conversation_context(msgs, conv_id, ps) ==
    [conv_id      |-> conv_id,
     participants |-> ps,
     start_time   |-> msgs[1].timestamp,
     count        |-> Len(msgs),
     lines        |-> SelectSeq(
                        [k \in 1..Len(msgs) |->
                            [timestamp |-> msgs[k].timestamp,
                             author    |-> msgs[k].author,
                             text      |-> simple_clean_message(msgs[k].message)]],
                        LAMBDA l : l.text # << >>)]

\* Document(page_content=..., metadata={...}) of the simple mode
SimpleDocument(window, conv_id, ps) ==
    [page_content |-> create_conversation_context(window, conv_id, ps),
     metadata |->
        [conversation_id |-> PyStr(str(conv_id)),
         start_time      |-> PyStr(window[1].timestamp),
         end_time        |-> PyStr(window[Len(window)].timestamp),
         message_count   |-> PyInt(Len(window)),
         participants    |-> PyStr(JoinNames(ps))]]

\* a record passes the filters of the loop (rag.py 53-67, app.py 73-82)
SimpleKept(item) ==
    /\ Len(strip(item.message)) >= SimpleMinText
    /\ ~IsSimpleSystemMessage(strip(item.message))

\* should_start_new_conversation of rag.py: only the window size counts
should_start_new_conversation(last_time, current_time, window_size) ==
    window_size > SimpleMaxWindow

\* the entry of a record in conversation_window
WindowEntry(item, k) ==
    [author |-> item.author, message |-> strip(item.message),
     timestamp |-> item.timestamp, index |-> k]

\* rag.py 36-44, app.py 55-63: the transcript is loaded, the locals are set
SimpleCall ==
    /\ prog \in {"rag", "app"}
    /\ pc = "call"
    /\ documents' = << >>
    /\ conversation_window' = << >>
    /\ last_timestamp' = [set |-> FALSE, value |-> << >>]
    /\ conversation_id' = 0
    /\ participants' = {}
    /\ i' = 0
    /\ pc' = "loop"
    /\ UNCHANGED <<prog, messages, boundaryVars, chunkVars, data, runVars, pipelineVars>>

\* rag.py 46-103: one iteration of the loop over the records
RagStep ==
    /\ prog = "rag"
    /\ pc = "loop"
    /\ i < Len(data)
    /\ LET item == data[i + 1]
       IN  IF ~SimpleKept(item)
           THEN UNCHANGED <<conversation_window, last_timestamp,
                            conversation_id, documents>>
           ELSE LET close ==
                        /\ last_timestamp.set
                        /\ last_timestamp.value # << >>
                        /\ should_start_new_conversation(
                              last_timestamp.value, item.timestamp,
                              Len(conversation_window))
                    emit == close /\ Len(conversation_window) >= SimpleMinWindow
                IN  /\ \E ps \in AuthorOrders(IF emit THEN conversation_window
                                              ELSE << >>) :
                          documents' =
                             IF emit
                             THEN Append(documents,
                                     SimpleDocument(conversation_window,
                                                    conversation_id, ps))
                             ELSE documents
                    /\ conversation_id' =
                          IF emit THEN conversation_id + 1 ELSE conversation_id
                    /\ conversation_window' =
                          Append(IF close THEN << >> ELSE conversation_window,
                                 WindowEntry(item, i))
                    /\ last_timestamp' = [set |-> TRUE, value |-> item.timestamp]
    /\ i' = i + 1
    /\ UNCHANGED <<prog, pc, messages, boundaryVars, chunkVars, data,
                   participants, runVars, pipelineVars>>

\* app.py 65-108: one iteration of the loop over the records
AppStep ==
    /\ prog = "app"
    /\ pc = "loop"
    /\ i < Len(data)
    /\ LET item == data[i + 1]
           window == Append(conversation_window, WindowEntry(item, i))
       IN  /\ participants' =
                 IF item.author # "Desconhecido"
                 THEN participants \cup {item.author} ELSE participants
           /\ IF ~SimpleKept(item)
              THEN UNCHANGED <<conversation_window, conversation_id, documents>>
              ELSE IF Len(window) >= AppWindow
                   THEN /\ \E ps \in AuthorOrders(window) :
                              documents' = Append(documents,
                                 SimpleDocument(window, conversation_id, ps))
                        /\ conversation_id' = conversation_id + 1
                        /\ conversation_window' = << >>
                   ELSE /\ conversation_window' = window
                        /\ UNCHANGED <<conversation_id, documents>>
    /\ i' = i + 1
    /\ UNCHANGED <<prog, pc, messages, boundaryVars, chunkVars, data,
                   last_timestamp, runVars, pipelineVars>>

\* rag.py 105-125, app.py 110-128: after the loop, the last window becomes
\* a document if it has the minimum length, and the documents are returned
SimpleFlush ==
    /\ prog \in {"rag", "app"}
    /\ pc = "loop"
    /\ i = Len(data)
    /\ LET emit == Len(conversation_window) >= SimpleMinWindow
       IN  \E ps \in AuthorOrders(IF emit THEN conversation_window ELSE << >>) :
              documents' =
                 IF emit
                 THEN Append(documents,
                         SimpleDocument(conversation_window, conversation_id, ps))
                 ELSE documents
    /\ pc' = "done"
    /\ UNCHANGED <<prog, messages, i, boundaryVars, chunkVars, data,
                   conversation_window, last_timestamp, conversation_id,
                   participants, runVars, pipelineVars>>


\* ------------------------------------------------------------------------
\* extract_keywords
\* ------------------------------------------------------------------------

\* the accented letters of the stoplist, upper and lower case
AccentUpper == <<"À", "Á", "Ã", "É", "Ê", "Ó">>
AccentLower == <<"à", "á", "ã", "é", "ê", "ó">>

\* str.lower() of one character, for the letters of the model
lower_char(c) ==
    IF \E k \in 1..Len(AccentUpper) : AccentUpper[k] = c
    THEN AccentLower[CHOOSE k \in 1..Len(AccentUpper) : AccentUpper[k] = c]
    ELSE LowerChar(c)

\* text.lower()
lower(s) == [k \in 1..Len(s) |-> lower_char(s[k])]

\* the characters \w matches
WordChars ==
    {UpperLetters[k] : k \in 1..Len(UpperLetters)}
        \cup {LowerLetters[k] : k \in 1..Len(LowerLetters)}
        \cup {AccentUpper[k] : k \in 1..Len(AccentUpper)}
        \cup {AccentLower[k] : k \in 1..Len(AccentLower)}
        \cup Digits \cup {"_"}

\* number of characters of \w from position p on
RECURSIVE WordRun(_, _)
WordRun(s, p) == IF In(s, p, WordChars) THEN 1 + WordRun(s, p + 1) ELSE 0

\* re.findall(r'\b\w+\b', s): the maximal runs of \w, left to right
RECURSIVE findall_words(_)
findall_words(s) ==
    IF s = << >> THEN << >>
    ELSE IF Head(s) \notin WordChars THEN findall_words(Tail(s))
    ELSE LET n == WordRun(s, 1)
         IN  <<SubSeq(s, 1, n)>> \o findall_words(SubSeq(s, n + 1, Len(s)))

\* the set stopwords (lines 88-97)
stopwords ==
    {<<"d", "e">>,
     <<"a">>,
     <<"o">>,
     <<"q", "u", "e">>,
     <<"e">>,
     <<"d", "o">>,
     <<"d", "a">>,
     <<"e", "m">>,
     <<"u", "m">>,
     <<"p", "a", "r", "a">>,
     <<"é">>,
     <<"c", "o", "m">>,
     <<"n", "ã", "o">>,
     <<"u", "m", "a">>,
     <<"o", "s">>,
     <<"n", "o">>,
     <<"s", "e">>,
     <<"n", "a">>,
     <<"p", "o", "r">>,
     <<"m", "a", "i", "s">>,
     <<"a", "s">>,
     <<"d", "o", "s">>,
     <<"c", "o", "m", "o">>,
     <<"m", "a", "s">>,
     <<"f", "o", "i">>,
     <<"a", "o">>,
     <<"e", "l", "e">>,
     <<"d", "a", "s">>,
     <<"t", "e", "m">>,
     <<"à">>,
     <<"s", "e", "u">>,
     <<"s", "u", "a">>,
     <<"o", "u">>,
     <<"s", "e", "r">>,
     <<"q", "u", "a", "n", "d", "o">>,
     <<"m", "u", "i", "t", "o">>,
     <<"n", "o", "s">>,
     <<"j", "á">>,
     <<"e", "u">>,
     <<"t", "a", "m", "b", "é", "m">>,
     <<"s", "ó">>,
     <<"p", "e", "l", "o">>,
     <<"p", "e", "l", "a">>,
     <<"a", "t", "é">>,
     <<"i", "s", "s", "o">>,
     <<"e", "l", "a">>,
     <<"e", "n", "t", "r", "e">>,
     <<"e", "r", "a">>,
     <<"d", "e", "p", "o", "i", "s">>,
     <<"s", "e", "m">>,
     <<"m", "e", "s", "m", "o">>,
     <<"a", "o", "s">>,
     <<"t", "e", "r">>,
     <<"s", "e", "u", "s">>,
     <<"s", "u", "a", "s">>,
     <<"v", "o", "c", "ê">>,
     <<"v", "o", "c", "ê", "s">>,
     <<"m", "e", "u">>,
     <<"m", "i", "n", "h", "a">>,
     <<"n", "o", "s", "s", "o">>,
     <<"n", "o", "s", "s", "a">>,
     <<"d", "e", "l", "e">>,
     <<"d", "e", "l", "a">>,
     <<"v", "o", "u">>,
     <<"v", "a", "i">>,
     <<"v", "a", "m", "o", "s">>,
     <<"e", "n", "t", "ã", "o">>,
     <<"a", "q", "u", "i">>,
     <<"l", "á">>,
     <<"o", "n", "d", "e">>,
     <<"p", "o", "r", "q", "u", "e">>,
     <<"a", "i", "n", "d", "a">>,
     <<"b", "e", "m">>,
     <<"s", "i", "m">>,
     <<"n", "é">>,
     <<"o", "k">>,
     <<"k", "k", "k">>,
     <<"k", "k", "k", "k">>,
     <<"r", "s">>,
     <<"r", "s", "r", "s">>}

\* the shortest word that is counted has more than this many characters
MinWord == 2

\* KeptWord that also counts the words of 2 characters
KeptWord_TwoChars(word) == Len(word) >= MinWord /\ word \notin stopwords

\* line 102: the word is counted
KeptWord(word) == Len(word) > MinWord /\ word \notin stopwords

\* lines 100-103: word_count, as the list of its (word, count) items in
\* insertion order
RECURSIVE CountWords(_, _)
CountWords(words, word_count) ==
    IF words = << >> THEN word_count
    ELSE LET word == Head(words)
             at   == {k \in 1..Len(word_count) : word_count[k].word = word}
         IN  IF ~KeptWord(word) THEN CountWords(Tail(words), word_count)
             ELSE IF at = {}
             THEN CountWords(Tail(words),
                     Append(word_count, [word |-> word, count |-> 1]))
             ELSE CountWords(Tail(words),
                     [k \in 1..Len(word_count) |->
                         IF k \in at
                         THEN [word |-> word,
                               count |-> word_count[k].count + 1]
                         ELSE word_count[k]])

\* the items in ascending order of count, equal counts in their order
RECURSIVE SortedAscending(_)
SortedAscending(items) ==
    IF items = << >> THEN << >>
    ELSE LET rest == SortedAscending(SubSeq(items, 1, Len(items) - 1))
             x    == items[Len(items)]
             n    == Cardinality({k \in 1..Len(rest) : rest[k].count <= x.count})
         IN  SubSeq(rest, 1, n) \o <<x>> \o SubSeq(rest, n + 1, Len(rest))

\* sorted(..., reverse=True) taken for reversed(sorted(...))
SortedDescending_Reversed(items) ==
    LET asc == SortedAscending(items)
    IN  [k \in 1..Len(asc) |-> asc[Len(asc) + 1 - k]]

\* sorted(..., reverse=True): descending order of count; the sort is
\* stable, so equal counts keep their order
RECURSIVE SortedDescending(_)
SortedDescending(items) ==
    IF items = << >> THEN << >>
    ELSE LET rest == SortedDescending(SubSeq(items, 1, Len(items) - 1))
             x    == items[Len(items)]
             n    == Cardinality({k \in 1..Len(rest) : rest[k].count >= x.count})
         IN  SubSeq(rest, 1, n) \o <<x>> \o SubSeq(rest, n + 1, Len(rest))

\* lines 85-106
extract_keywords(t) ==
    LET words  == findall_words(lower(t))
        sorted == SortedDescending(CountWords(words, << >>))
    IN  [k \in 1..Len(sorted) |-> sorted[k].word]

\* the call of extract_keywords on `text`
ExtractKeywords ==
    /\ prog = "keywords"
    /\ pc = "call"
    /\ keywords' = extract_keywords(text)
    /\ pc' = "done"
    /\ UNCHANGED <<prog, messages, i, boundaryVars, chunkVars, simpleVars,
                   runVars, serverVars, databaseVars, storeVars, text, parsed_time>>

\* parse_timestamp is called on a timestamp string
ParseTimestamp ==
    /\ prog = "timestamp"
    /\ pc = "call"
    /\ parsed_time' = parse_timestamp(text)
    /\ pc' = "done"
    /\ UNCHANGED <<prog, messages, i, boundaryVars, chunkVars, simpleVars,
                   runVars, serverVars, databaseVars, storeVars, text, keywords>>

\* ------------------------------------------------------------------------
\* create_whatsapp_database: the filter, the two partitionings, the
\* documents (teste.py 236-413)
\* ------------------------------------------------------------------------

\* self.system_messages (lines 21-28)
system_messages ==
    <<s_mensagem_apagada, s_media_omitted, s_audio_omitted, s_image_omitted,
      s_document_omitted, s_video_omitted,
      <<"s", "t", "i", "c", "k", "e", "r", " ", "o", "m", "i", "t", "t", "e", "d">>,
      <<"g", "i", "f", " ", "o", "m", "i", "t", "t", "e", "d">>,
      <<"c", "o", "n", "t", "a", "c", "t", " ", "c", "a", "r", "d", " ", "o", "m", "i", "t", "t", "e", "d">>,
      <<"l", "o", "c", "a", "t", "i", "o", "n", " ", "o", "m", "i", "t", "t", "e", "d">>,
      <<"v", "o", "c", "ê", " ", "f", "o", "i", " ", "a", "d", "i", "c", "i", "o", "n", "a", "d", "o">>,
      <<"s", "a", "i", "u">>,
      <<"e", "n", "t", "r", "o", "u", " ", "n", "o", " ", "g", "r", "u", "p", "o">>,
      <<"m", "u", "d", "o", "u", " ", "o", " ", "a", "s", "s", "u", "n", "t", "o">>,
      <<"m", "u", "d", "o", "u", " ", "a", " ", "d", "e", "s", "c", "r", "i", "ç", "ã", "o">>,
      <<"c", "r", "i", "o", "u", " ", "o", " ", "g", "r", "u", "p", "o">>,
      <<"r", "e", "m", "o", "v", "e", "u">>,
      <<"a", "d", "i", "c", "i", "o", "n", "a", "d", "o">>,
      <<"c", "h", "a", "m", "a", "d", "a", " ", "d", "e", " ", "v", "o", "z">>,
      <<"c", "h", "a", "m", "a", "d", "a", " ", "d", "e", " ", "v", "í", "d", "e", "o">>,
      <<"p", "e", "r", "d", "i", "d", "a">>,
      <<"o", "c", "u", "p", "a", "d", "o">>,
      <<"r", "e", "j", "e", "i", "t", "a", "d", "a">>>>

\* s.startswith(prefix)
startswith(s, prefix) == OccursAt(prefix, s, 1)

\* s.endswith(suffix)
endswith(s, suffix) ==
    Len(suffix) <= Len(s) /\ OccursAt(suffix, s, Len(s) - Len(suffix) + 1)

\* '.' of a regular expression matches every character of s
NoNewline(s) == \A k \in 1..Len(s) : s[k] # "\n"

\* re.match of the five system_patterns (lines 209-219) on a stripped,
\* lower-case message
MatchesSystemPattern(m) ==
    \/ /\ Len(m) >= 2
       /\ m[1] = "["
       /\ m[Len(m)] = "]"
       /\ NoNewline(m)
    \/ m = <<"c", "h", "a", "m", "a", "d", "a", " ", "p", "e", "r", "d", "i", "d", "a">>
    \/ m = <<"c", "h", "a", "m", "a", "d", "a", " ", "r", "e", "j", "e", "i", "t", "a", "d", "a">>
    \/ m = <<"v", "o", "c", "ê", " ", "f", "o", "i", " ", "a", "d", "i", "c", "i", "o", "n", "a", "d", "o">>
    \/ endswith(m, <<" ", "s", "a", "i", "u">>) /\ NoNewline(m)
    \/ /\ NoNewline(m)
       /\ \E p \in 1..Len(m), q \in 1..Len(m) :
             /\ OccursAt(<<" ", "m", "u", "d", "o", "u", " ">>, m, p)
             /\ q >= p + 7
             /\ OccursAt(<<"p", "a", "r", "a">>, m, q)

\* the least length of a stripped message that is not taken for a system
\* message (line 198)
MinSystemText == 2

\* is_system_message (lines 196-221)
is_system_message(message) ==
    \/ message = << >>
    \/ Len(strip(message)) < MinSystemText
    \/ LET message_lower == strip(lower(message))
       IN  \/ \E k \in 1..Len(system_messages) :
                 \/ message_lower = system_messages[k]
                 \/ startswith(message_lower, system_messages[k])
           \/ MatchesSystemPattern(message_lower)

\* characters of [\x00-\x08\x0b\x0c\x0e-\x1f\x7f] in the model, in caret
\* notation: \x01 and \x7f
ControlChars == {"^A", "^?"}

\* the length from which a message with a link is shortened (line 191),
\* and the least length of a link that is replaced (line 192)
LongMessage == 200

LongLink == 100

\* number of characters other than whitespace from position p on
RECURSIVE NonWsRun(_, _)
NonWsRun(s, p) ==
    IF p <= Len(s) /\ s[p] \notin Whitespace THEN 1 + NonWsRun(s, p + 1)
    ELSE 0

\* length of the match of http[s]?://[^\s]{100,} at position p, or 0
LinkAt(s, p) ==
    LET head == IF OccursAt(<<"h", "t", "t", "p", "s", ":", "/", "/">>, s, p) THEN 8
                ELSE IF OccursAt(<<"h", "t", "t", "p", ":", "/", "/">>, s, p) THEN 7 ELSE 0
        rest == IF head = 0 THEN 0 ELSE NonWsRun(s, p + head)
    IN  IF head > 0 /\ rest >= LongLink THEN head + rest ELSE 0

\* re.sub(r'http[s]?://[^\s]{100,}', '[link_longo]', s)
RECURSIVE ReplaceLinks(_)
ReplaceLinks(s) ==
    IF s = << >> THEN << >>
    ELSE IF LinkAt(s, 1) > 0
         THEN <<"[", "l", "i", "n", "k", "_", "l", "o", "n", "g", "o", "]">>
                 \o ReplaceLinks(SubSeq(s, LinkAt(s, 1) + 1, Len(s)))
         ELSE <<Head(s)>> \o ReplaceLinks(Tail(s))

\* clean_message of teste.py (lines 179-194)
clean_message(message) ==
    IF message = << >> THEN << >>
    ELSE LET m1 == SelectSeq(message, LAMBDA c : c \notin ControlChars)
             m2 == CollapseWs(m1)
             m3 == IF Len(m2) > LongMessage /\ Contains(<<"h", "t", "t", "p">>, m2)
                   THEN ReplaceLinks(m2) ELSE m2
         IN  strip(m3)

\* minimum length of the stripped text of a record (line 274)
MinText == 1

\* the record passes the two filters (lines 271-280)
Kept(item) ==
    /\ Len(strip(item.message)) >= MinText
    /\ ~is_system_message(strip(item.message))

\* NormalizedMessage that numbers the messages by their place in
\* valid_messages
NormalizedMessage_OutputIndex(item, k) ==
    [author           |-> item.author,
     message          |-> clean_message(strip(item.message)),
     original_message |-> strip(item.message),
     timestamp        |-> item.timestamp,
     index            |-> Len(valid_messages)]

\* the entry of valid_messages for the record item at position k
\* (lines 283-291)
NormalizedMessage(item, k) ==
    [author           |-> item.author,
     message          |-> clean_message(strip(item.message)),
     original_message |-> strip(item.message),
     timestamp        |-> item.timestamp,
     index            |-> k]

\* detect_conversation_boundaries_conservative as a function of its
\* argument: the loop of lines 118-153 and the flush of lines 155-160
RECURSIVE BoundaryLoop(_, _, _)
BoundaryLoop(ms, current, done) ==
    IF ms = << >>
    THEN IF Len(current) >= MinConversation THEN Append(done, current)
         ELSE done
    ELSE LET message == Head(ms)
         IN  IF current = << >>
             THEN BoundaryLoop(Tail(ms), <<message>>, done)
             ELSE IF /\ should_split(message, current)
                     /\ Len(current) >= MinConversation
                  THEN BoundaryLoop(Tail(ms), <<message>>,
                                    Append(done, current))
                  ELSE BoundaryLoop(Tail(ms), Append(current, message), done)

detect_conversation_boundaries_conservative(ms) ==
    IF ms = << >> THEN << >> ELSE BoundaryLoop(ms, << >>, << >>)

\* create_overlapping_chunks as a function of its arguments (lines 162-177)
RECURSIVE ChunkLoop(_, _, _, _)
ChunkLoop(ms, c, size, ov) ==
    IF c >= Len(ms) THEN << >>
    ELSE LET chunk == Slice(ms, c, c + size)
         IN  (IF Len(chunk) >= MinConversation THEN <<chunk>> ELSE << >>)
                \o ChunkLoop(ms, c + (size - ov), size, ov)

create_overlapping_chunks(ms, size, ov) ==
    IF ms = << >> THEN << >> ELSE ChunkLoop(ms, 0, size, ov)

\* n written with at least w digits
RECURSIVE ZeroPad(_, _)
ZeroPad(n, w) ==
    IF Len(str(n)) >= w THEN str(n)
    ELSE <<"0">> \o ZeroPad(n, w - 1)

\* str() of a datetime
str_datetime(t) ==
    ZeroPad(t.year, 4) \o <<"-">> \o ZeroPad(t.month, 2) \o <<"-">>
        \o ZeroPad(t.day, 2) \o <<" ">> \o ZeroPad(t.hour, 2) \o <<":">>
        \o ZeroPad(t.minute, 2) \o <<":">> \o ZeroPad(t.second, 2)
        \o (IF t.microsecond = 0 THEN << >>
            ELSE <<".">> \o ZeroPad(t.microsecond, 6))

\* ' '.join of the texts of the messages of a unit
RECURSIVE all_text(_)
all_text(unit) ==
    IF unit = << >> THEN << >>
    ELSE IF Len(unit) = 1 THEN unit[1].message
    ELSE unit[1].message \o <<" ">> \o all_text(Tail(unit))

\* seq[:n]
FirstN(seq, n) == SubSeq(seq, 1, Min(n, Len(seq)))

\* the lines "[timestamp] author: content" of a unit
ContextLines(unit) ==
    [k \in 1..Len(unit) |->
        [timestamp |-> unit[k].timestamp, author |-> unit[k].author,
         content |-> unit[k].message]]

\* number of keywords in the header of a conversation / of a chunk, and
\* in the metadata
HeaderKeywords == 8

ChunkHeaderKeywords == 5

MetadataKeywords == 10

\* lines 337-339: the timestamps of the conversation that parse
ValidTimestamps(conversation) ==
    SelectSeq([k \in 1..Len(conversation) |->
                  parse_timestamp(conversation[k].timestamp)],
              LAMBDA ts : ts.ok)

\* ConversationRecord that takes end_time from the first parsed timestamp
ConversationRecord_EndIsStart(conversation, id, ps, kw, valid_timestamps) ==
    [page_content |->
        [title        |-> "CONVERSA NATURAL",
         doc_id       |-> id,
         participants |-> ps,
         count        |-> Len(conversation),
         keywords     |-> FirstN(kw, HeaderKeywords),
         lines        |-> ContextLines(conversation)],
     metadata |->
        [type          |-> PyStr("conversation"),
         doc_id        |-> PyStr(str(id)),
         participants  |-> PyStr(JoinNames(ps)),
         message_count |-> PyInt(Len(conversation)),
         keywords      |-> PyStr(JoinStrings(FirstN(kw, MetadataKeywords))),
         start_time    |-> PyStr(IF valid_timestamps # << >>
                           THEN str_datetime(valid_timestamps[1])
                           ELSE << >>),
         end_time      |-> PyStr(IF valid_timestamps # << >>
                           THEN str_datetime(
                              valid_timestamps[1])
                           ELSE << >>)]]

\* lines 340-368: the content and the metadata, of the keywords kw and
\* the parsed timestamps valid_timestamps; the joined strings are kept as
\* sequences
ConversationRecord(conversation, id, ps, kw, valid_timestamps) ==
    [page_content |->
        [title        |-> "CONVERSA NATURAL",
         doc_id       |-> id,
         participants |-> ps,
         count        |-> Len(conversation),
         keywords     |-> FirstN(kw, HeaderKeywords),
         lines        |-> ContextLines(conversation)],
     metadata |->
        [type          |-> PyStr("conversation"),
         doc_id        |-> PyStr(str(id)),
         participants  |-> PyStr(JoinNames(ps)),
         message_count |-> PyInt(Len(conversation)),
         keywords      |-> PyStr(JoinStrings(FirstN(kw, MetadataKeywords))),
         start_time    |-> PyStr(IF valid_timestamps # << >>
                           THEN str_datetime(valid_timestamps[1])
                           ELSE << >>),
         end_time      |-> PyStr(IF valid_timestamps # << >>
                           THEN str_datetime(
                              valid_timestamps[Len(valid_timestamps)])
                           ELSE << >>)]]

\* lines 330-368: the document of a conversation; ps is list(set(authors))
ConversationDocument(conversation, id, ps) ==
    ConversationRecord(conversation, id, ps,
                       extract_keywords(all_text(conversation)),
                       ValidTimestamps(conversation))

\* ChunkDocument that stores the list of participants itself
ChunkDocument_ListParticipants(chunk, id, ps) ==
    LET kw == extract_keywords(all_text(chunk))
    IN  [page_content |->
            [title        |-> "CHUNK",
             doc_id       |-> id,
             participants |-> ps,
             count        |-> Len(chunk),
             keywords     |-> FirstN(kw, ChunkHeaderKeywords),
             lines        |-> ContextLines(chunk)],
         metadata |->
            [type          |-> PyStr("chunk"),
             doc_id        |-> PyStr(str(id)),
             participants  |-> [py |-> "list", v |-> ps],
             message_count |-> PyInt(Len(chunk)),
             keywords      |-> PyStr(JoinStrings(FirstN(kw, MetadataKeywords)))]]

\* lines 377-408: the document of a chunk
ChunkDocument(chunk, id, ps) ==
    LET kw == extract_keywords(all_text(chunk))
    IN  [page_content |->
            [title        |-> "CHUNK",
             doc_id       |-> id,
             participants |-> ps,
             count        |-> Len(chunk),
             keywords     |-> FirstN(kw, ChunkHeaderKeywords),
             lines        |-> ContextLines(chunk)],
         metadata |->
            [type          |-> PyStr("chunk"),
             doc_id        |-> PyStr(str(id)),
             participants  |-> PyStr(JoinNames(ps)),
             message_count |-> PyInt(Len(chunk)),
             keywords      |-> PyStr(JoinStrings(FirstN(kw, MetadataKeywords)))]]

\* lines 238-264: the transcript is loaded, the filter starts
DatabaseCall ==
    /\ prog = "database"
    /\ pc = "call"
    /\ valid_messages' = << >>
    /\ i' = 0
    /\ pc' = "filter"
    /\ UNCHANGED <<prog, messages, boundaryVars, chunkVars, simpleVars,
                   runVars, serverVars, doc_id, storeVars, keywordVars>>

\* lines 266-291: one iteration of the loop over the records
FilterStep ==
    /\ prog = "database"
    /\ pc = "filter"
    /\ i < Len(data)
    /\ LET item == data[i + 1]
       IN  valid_messages' =
              IF Kept(item)
              THEN Append(valid_messages, NormalizedMessage(item, i))
              ELSE valid_messages
    /\ i' = i + 1
    /\ UNCHANGED <<prog, pc, messages, boundaryVars, chunkVars, simpleVars,
                   runVars, serverVars, doc_id, storeVars, keywordVars>>

\* lines 293-318: the statistics are printed (the rate divides by
\* len(data): an empty transcript raises ZeroDivisionError), the two
\* partitionings are computed, the document list starts empty
Partition ==
    /\ prog = "database"
    /\ pc = "filter"
    /\ i = Len(data)
    /\ IF data = << >>
       THEN /\ returned' = [value |-> "raised"]
            /\ pc' = "done"
            /\ UNCHANGED <<conversations, chunks, chunk_size, overlap,
                           documents, doc_id, i>>
       ELSE /\ conversations' =
                  detect_conversation_boundaries_conservative(valid_messages)
            /\ chunk_size' = 40
            /\ overlap' = 15
            /\ chunks' = create_overlapping_chunks(valid_messages, 40, 15)
            /\ documents' = << >>
            /\ doc_id' = 0
            /\ i' = 0
            /\ pc' = "conversations"
            /\ UNCHANGED returned
    /\ UNCHANGED <<prog, messages, current_conversation, data,
                   conversation_window, last_timestamp, conversation_id,
                   participants, runVars, serverVars, valid_messages, vector_db, store,
                   calls, log, keywordVars>>

\* lines 322-369: one iteration of the loop over the conversations
ConversationDoc ==
    /\ prog = "database"
    /\ pc = "conversations"
    /\ i < Len(conversations)
    /\ LET conversation == conversations[i + 1]
       IN  IF Len(conversation) < MinConversation
           THEN UNCHANGED <<documents, doc_id>>
           ELSE /\ \E ps \in AuthorOrders(conversation) :
                      documents' = Append(documents,
                         ConversationDocument(conversation, doc_id, ps))
                /\ doc_id' = doc_id + 1
    /\ i' = i + 1
    /\ UNCHANGED <<prog, pc, messages, boundaryVars, chunkVars, data,
                   conversation_window, last_timestamp, conversation_id,
                   participants, runVars, serverVars, valid_messages, storeVars,
                   keywordVars>>

\* lines 371-372: the loop over the conversations is over
ConversationsDone ==
    /\ prog = "database"
    /\ pc = "conversations"
    /\ i = Len(conversations)
    /\ i' = 0
    /\ pc' = "chunks"
    /\ UNCHANGED <<prog, messages, boundaryVars, chunkVars, simpleVars,
                   runVars, serverVars, databaseVars, storeVars, keywordVars>>

\* ChunkDoc that numbers the chunks by their own place
ChunkDoc_OwnCounter ==
    /\ prog = "database"
    /\ pc = "chunks"
    /\ i < Len(chunks)
    /\ LET chunk == chunks[i + 1]
       IN  \E ps \in AuthorOrders(chunk) :
              documents' = Append(documents, ChunkDocument(chunk, i, ps))
    /\ doc_id' = doc_id + 1
    /\ i' = i + 1
    /\ UNCHANGED <<prog, pc, messages, boundaryVars, chunkVars, data,
                   conversation_window, last_timestamp, conversation_id,
                   participants, runVars, serverVars, valid_messages, storeVars,
                   keywordVars>>

\* lines 373-409: one iteration of the loop over the chunks
ChunkDoc ==
    /\ prog = "database"
    /\ pc = "chunks"
    /\ i < Len(chunks)
    /\ LET chunk == chunks[i + 1]
       IN  \E ps \in AuthorOrders(chunk) :
              documents' = Append(documents, ChunkDocument(chunk, doc_id, ps))
    /\ doc_id' = doc_id + 1
    /\ i' = i + 1
    /\ UNCHANGED <<prog, pc, messages, boundaryVars, chunkVars, data,
                   conversation_window, last_timestamp, conversation_id,
                   participants, runVars, serverVars, valid_messages, storeVars,
                   keywordVars>>

\* lines 411-432: the loop over the chunks is over, the submission starts
ChunksDone ==
    /\ prog = "database"
    /\ pc = "chunks"
    /\ i = Len(chunks)
    /\ pc' = "create"
    /\ UNCHANGED <<prog, messages, i, boundaryVars, chunkVars, simpleVars,
                   runVars, serverVars, databaseVars, storeVars, keywordVars>>

\* ------------------------------------------------------------------------
\* The submission of the documents to the vector store
\* (teste.py 423-487, app.py create_vector_database_with_logging)
\* ------------------------------------------------------------------------

\* the entry points that submit documents: the last stage of
\* create_whatsapp_database, run after the documents are built ("database")
\* or on a given list of documents ("ingest"), and the function of app.py
TesteIngest == {"database", "ingest"}

AppIngest == {"app_db", "app_server"}

\* the whole of app.py: initialize_chatbot_sync at startup, which calls
\* create_vector_database_with_logging, then the server
AppServer == {"app_server"}

\* create_vector_database_with_logging of rag.py
RagIngest == {"rag_db"}

\* batch_size (teste.py 424, app.py 218)
TesteBatch == 10

AppBatch == 5

\* batch_size (rag.py 177)
RagBatch == 10

\* the handle Chroma.from_documents returns
Chroma == "Chroma"

\* what `returned` holds while the run has not returned
Running == [value |-> "running"]

\* what `vector_db` holds before the store is created
NoHandle == [value |-> "None"]

\* one call of the external store, with its outcome
StoreCall(op, docs, ok) == [op |-> op, documents |-> docs, ok |-> ok]

\* one printed line that carries a number
Line(name, value) == [name |-> name, value |-> value]

\* line 425
total_batches == (Len(documents) + TesteBatch - 1) \div TesteBatch

\* lines 434-445: the store is created from the first batch; if the call
\* fails the error is printed and None is returned
TesteCreate ==
    /\ prog \in TesteIngest
    /\ pc = "create"
    /\ \E ok \in BOOLEAN :
          LET batch == Slice(documents, 0, TesteBatch)
          IN  /\ calls' = Append(calls, StoreCall("from_documents", batch, ok))
              /\ IF ok
                 THEN /\ vector_db' = [value |-> Chroma]
                      /\ store' = batch
                      /\ pc' = "append"
                      /\ UNCHANGED <<log, returned>>
                 ELSE /\ log' = Append(log, Line("erro_ao_criar_banco", 1))
                      /\ returned' = NoHandle
                      /\ pc' = "done"
                      /\ UNCHANGED <<vector_db, store>>
    /\ i' = 1
    /\ UNCHANGED <<prog, messages, boundaryVars, chunkVars, simpleVars,
                   runVars, serverVars, databaseVars, keywordVars>>

\* TesteAppend that submits a failed batch again
TesteAppend_Retry ==
    /\ prog \in TesteIngest
    /\ pc = "append"
    /\ i < total_batches
    /\ \E ok \in BOOLEAN :
          LET start_idx == i * TesteBatch
              end_idx   == Min(start_idx + TesteBatch, Len(documents))
              batch     == Slice(documents, start_idx, end_idx)
          IN  /\ calls' = Append(calls, StoreCall("add_documents", batch, ok))
              /\ store' = IF ok THEN store \o batch ELSE store
              /\ log' = IF ok THEN log
                        ELSE Append(log, Line("erro_no_batch", i + 1))
              /\ i' = IF ok THEN i + 1 ELSE i
    /\ UNCHANGED <<prog, pc, messages, boundaryVars, chunkVars, simpleVars,
                   runVars, serverVars, databaseVars, keywordVars, vector_db, returned>>

\* TesteAppend that empties the store when a batch fails
TesteAppend_Rollback ==
    /\ prog \in TesteIngest
    /\ pc = "append"
    /\ i < total_batches
    /\ \E ok \in BOOLEAN :
          LET start_idx == i * TesteBatch
              end_idx   == Min(start_idx + TesteBatch, Len(documents))
              batch     == Slice(documents, start_idx, end_idx)
          IN  /\ calls' = Append(calls, StoreCall("add_documents", batch, ok))
              /\ store' = IF ok THEN store \o batch ELSE << >>
              /\ log' = IF ok THEN log
                        ELSE Append(log, Line("erro_no_batch", i + 1))
    /\ i' = i + 1
    /\ UNCHANGED <<prog, pc, messages, boundaryVars, chunkVars, simpleVars,
                   runVars, serverVars, databaseVars, keywordVars, vector_db, returned>>

\* lines 448-459: one iteration of range(1, total_batches); i is
\* batch_num; a failure of add_documents is printed and the loop goes on
TesteAppend ==
    /\ prog \in TesteIngest
    /\ pc = "append"
    /\ i < total_batches
    /\ \E ok \in BOOLEAN :
          LET start_idx == i * TesteBatch
              end_idx   == Min(start_idx + TesteBatch, Len(documents))
              batch     == Slice(documents, start_idx, end_idx)
          IN  /\ calls' = Append(calls, StoreCall("add_documents", batch, ok))
              /\ store' = IF ok THEN store \o batch ELSE store
              /\ log' = IF ok THEN log
                        ELSE Append(log, Line("erro_no_batch", i + 1))
    /\ i' = i + 1
    /\ UNCHANGED <<prog, pc, messages, boundaryVars, chunkVars, simpleVars,
                   runVars, serverVars, databaseVars, keywordVars, vector_db, returned>>

\* lines 461-487: after the loop a test query is sent, its failure is
\* printed, and the handle is returned
TesteReturn ==
    /\ prog \in TesteIngest
    /\ pc = "append"
    /\ i >= total_batches
    /\ \E ok \in BOOLEAN :
          /\ calls' = Append(calls, StoreCall("similarity_search", << >>, ok))
          /\ log' = IF ok THEN log ELSE Append(log, Line("erro_no_teste", 1))
    /\ returned' = vector_db
    /\ pc' = "done"
    /\ UNCHANGED <<prog, messages, i, boundaryVars, chunkVars, simpleVars,
                   runVars, serverVars, databaseVars, keywordVars, vector_db, store>>

\* app.py 217-226: the store is created from the first batch; a failure
\* of the call leaves the function as an exception
AppCreate ==
    /\ prog \in AppIngest
    /\ pc = "create"
    /\ \E ok \in BOOLEAN :
          LET batch == Slice(documents, 0, AppBatch)
          IN  /\ calls' = Append(calls, StoreCall("from_documents", batch, ok))
              /\ IF ok
                 THEN /\ vector_db' = [value |-> Chroma]
                      /\ store' = batch
                      /\ pc' = "append"
                      /\ UNCHANGED returned
                 ELSE /\ returned' = [value |-> "raised"]
                      /\ pc' = "done"
                      /\ UNCHANGED <<vector_db, store>>
    /\ i' = AppBatch
    /\ UNCHANGED <<prog, messages, boundaryVars, chunkVars, simpleVars,
                   runVars, serverVars, databaseVars, keywordVars, log>>

\* app.py 228-235: one iteration of range(batch_size, total_docs,
\* batch_size); a failure of add_documents is printed and the loop goes on
AppAppend ==
    /\ prog \in AppIngest
    /\ pc = "append"
    /\ i < Len(documents)
    /\ \E ok \in BOOLEAN :
          LET batch == Slice(documents, i, i + AppBatch)
          IN  /\ calls' = Append(calls, StoreCall("add_documents", batch, ok))
              /\ store' = IF ok THEN store \o batch ELSE store
              /\ log' = IF ok THEN log
                        ELSE Append(log, Line("erro_ao_adicionar_lote",
                                              (i \div AppBatch) + 1))
    /\ i' = i + AppBatch
    /\ UNCHANGED <<prog, pc, messages, boundaryVars, chunkVars, simpleVars,
                   runVars, serverVars, databaseVars, keywordVars, vector_db, returned>>

\* rag.py 183-187: the store is created from the first batch; nothing
\* catches a failure of the call, which leaves the function as an
\* exception
RagCreate ==
    /\ prog \in RagIngest
    /\ pc = "create"
    /\ \E ok \in BOOLEAN :
          LET batch == Slice(documents, 0, RagBatch)
          IN  /\ calls' = Append(calls, StoreCall("from_documents", batch, ok))
              /\ IF ok
                 THEN /\ vector_db' = [value |-> Chroma]
                      /\ store' = batch
                      /\ pc' = "append"
                      /\ UNCHANGED returned
                 ELSE /\ returned' = [value |-> "raised"]
                      /\ pc' = "done"
                      /\ UNCHANGED <<vector_db, store>>
    /\ i' = RagBatch
    /\ UNCHANGED <<prog, messages, boundaryVars, chunkVars, simpleVars,
                   runVars, serverVars, databaseVars, keywordVars, log>>

\* rag.py 189-204: one iteration of range(batch_size, total_docs,
\* batch_size); add_documents is called outside any try, so its failure
\* leaves the loop and the function as an exception
RagAppend ==
    /\ prog \in RagIngest
    /\ pc = "append"
    /\ i < Len(documents)
    /\ \E ok \in BOOLEAN :
          LET batch == Slice(documents, i, i + RagBatch)
          IN  /\ calls' = Append(calls, StoreCall("add_documents", batch, ok))
              /\ IF ok
                 THEN /\ store' = store \o batch
                      /\ i' = i + RagBatch
                      /\ UNCHANGED <<pc, returned>>
                 ELSE /\ returned' = [value |-> "raised"]
                      /\ pc' = "done"
                      /\ UNCHANGED <<store, i>>
    /\ UNCHANGED <<prog, messages, boundaryVars, chunkVars, simpleVars,
                   runVars, serverVars, databaseVars, keywordVars, vector_db, log>>

\* rag.py 206-214: the handle is returned
RagReturn ==
    /\ prog \in RagIngest
    /\ pc = "append"
    /\ i >= Len(documents)
    /\ returned' = vector_db
    /\ pc' = "done"
    /\ UNCHANGED <<prog, messages, i, boundaryVars, chunkVars, simpleVars,
                   runVars, serverVars, databaseVars, keywordVars, vector_db, store,
                   calls, log>>

\* app.py 237-239: the handle is returned
AppReturn ==
    /\ prog \in AppIngest
    /\ pc = "append"
    /\ i >= Len(documents)
    /\ returned' = vector_db
    /\ pc' = "done"
    /\ UNCHANGED <<prog, messages, i, boundaryVars, chunkVars, simpleVars,
                   runVars, serverVars, databaseVars, keywordVars, vector_db, store,
                   calls, log>>

\* ------------------------------------------------------------------------
\* The server of app.py: initialize_chatbot_sync at startup and in the
\* requests POST /api/initialize (app.py 303-435, 1144-1176, 1257-1277)
\* ------------------------------------------------------------------------

\* number of requests POST /api/initialize the server receives
MaxRequests == 2

\* number of documents of the longest transcript the server starts on
MaxStartup == 6

\* the thread of __main__, which runs initialize_chatbot_sync before the
\* server is started
MainThread == 0

\* the threads that serve POST /api/initialize: app.run(threaded=True)
\* gives each request a thread of its own
RequestThreads == 1..MaxRequests

\* initialization_error and conversation_stats['error_message'] when unset
NoError == [value |-> "None"]

\* an error message
ErrorOf(msg) == [value |-> msg]

\* what create_qa_chain_compatible returns
RetrievalQA == [value |-> "RetrievalQA"]

\* a thread: where it is, what initialize_chatbot_sync returned to it
\* ("none" while it has not), and the HTTP status of its response (0 while
\* there is none)
Thread(at, success, status) ==
    [pc |-> at, success |-> success, status |-> status]

\* requests with thread t moved
Moved(t, at, success, status) ==
    [requests EXCEPT ![t] = Thread(at, success, status)]

\* the two assignments of an error: initialization_error = error_msg;
\* conversation_stats['error_message'] = error_msg
SetError(msg) ==
    /\ initialization_error' = ErrorOf(msg)
    /\ conversation_stats' =
          [conversation_stats EXCEPT !.error_message = ErrorOf(msg)]

\* lines 404-409 (and 350-354, 378-383): the statistics of a loaded store
SetLoaded ==
    conversation_stats' =
        [conversation_stats EXCEPT !.is_loaded = TRUE,
                                   !.error_message = NoError]

\* lines 21-31: the globals of the module when it is imported
ServerIdle ==
    /\ chatbot = NoHandle
    /\ db = NoHandle
    /\ initialization_error = NoError
    /\ conversation_stats = [is_loaded |-> FALSE, error_message |-> NoError]
    /\ requests = [t \in {MainThread} \cup RequestThreads |->
                      IF t = MainThread THEN Thread("startup", "none", 0)
                      ELSE Thread("idle", "none", 0)]

ingestFrame ==
    <<prog, pc, messages, i, boundaryVars, chunkVars, simpleVars, runVars,
      databaseVars, storeVars, keywordVars>>

\* StartupCreated that sets no error when the creation raised
StartupCreated_NoError ==
    /\ prog \in AppServer
    /\ pc = "done"
    /\ documents # << >>
    /\ requests[MainThread].pc = "startup"
    /\ IF returned = [value |-> "raised"]
       THEN /\ requests' = Moved(MainThread, "returned", "False", 0)
            /\ UNCHANGED <<db, initialization_error, conversation_stats>>
       ELSE /\ db' = returned
            /\ SetLoaded
            /\ requests' = Moved(MainThread, "chatbot", "none", 0)
            /\ UNCHANGED initialization_error
    /\ UNCHANGED <<ingestFrame, chatbot>>

\* lines 393-416 at startup, on the outcome of
\* create_vector_database_with_logging(docs, ...) for a non-empty docs: the
\* handle is assigned to db and the statistics are set, or the exception
\* is caught, the error is set and False is returned
StartupCreated ==
    /\ prog \in AppServer
    /\ pc = "done"
    /\ documents # << >>
    /\ requests[MainThread].pc = "startup"
    /\ IF returned = [value |-> "raised"]
       THEN /\ SetError("Erro ao criar banco")
            /\ requests' = Moved(MainThread, "returned", "False", 0)
            /\ UNCHANGED db
       ELSE /\ db' = returned
            /\ SetLoaded
            /\ requests' = Moved(MainThread, "chatbot", "none", 0)
            /\ UNCHANGED initialization_error
    /\ UNCHANGED <<ingestFrame, chatbot>>

\* lines 418-428: the chatbot is created from db and True is returned, or
\* the error is set and False is returned
CreateChatbot(t) ==
    /\ prog \in AppServer
    /\ requests[t].pc = "chatbot"
    /\ \E ok \in BOOLEAN :
          IF ok
          THEN /\ chatbot' = RetrievalQA
               /\ requests' = Moved(t, "returned", "True", 0)
               /\ UNCHANGED <<initialization_error, conversation_stats>>
          ELSE /\ SetError("Erro ao criar chatbot")
               /\ requests' = Moved(t, "returned", "False", 0)
               /\ UNCHANGED chatbot
    /\ UNCHANGED <<ingestFrame, db>>

\* lines 1260-1277: __main__ prints the outcome and starts the server
Serve ==
    /\ prog \in AppServer
    /\ requests[MainThread].pc = "returned"
    /\ requests' = Moved(MainThread, "serving",
                         requests[MainThread].success, 0)
    /\ UNCHANGED <<ingestFrame, chatbot, db, initialization_error,
                   conversation_stats>>

\* the server accepts requests
Serving == prog \in AppServer /\ requests[MainThread].pc = "serving"

\* lines 1149-1153: force_initialize answers at once when chatbot is set;
\* otherwise it goes on to call initialize_chatbot_sync
ForceInitialize(t) ==
    /\ Serving
    /\ t \in RequestThreads
    /\ requests[t].pc = "idle"
    /\ requests' = IF chatbot # NoHandle
                   THEN Moved(t, "done", "none", 200)
                   ELSE Moved(t, "configure", "none", 0)
    /\ UNCHANGED <<ingestFrame, chatbot, db, initialization_error,
                   conversation_stats>>

\* lines 309-334: the API key, the transcript file and the embedding
\* model; any of them missing sets the error and returns False
Configure(t) ==
    /\ Serving
    /\ requests[t].pc = "configure"
    /\ \E ok \in BOOLEAN :
          IF ok
          THEN /\ requests' = Moved(t, "database", "none", 0)
               /\ UNCHANGED <<initialization_error, conversation_stats>>
          ELSE /\ SetError("API Key nao configurada")
               /\ requests' = Moved(t, "returned", "False", 0)
    /\ UNCHANGED <<ingestFrame, chatbot, db>>

\* lines 337-341 and 363-365, 391-392: when the directory of the store
\* exists the store is opened and assigned to db; when it does not, or the
\* opening fails, a new store is to be created
OpenDatabase(t) ==
    /\ Serving
    /\ requests[t].pc = "database"
    /\ \E existing \in BOOLEAN, ok \in BOOLEAN :
          IF existing /\ ok
          THEN /\ db' = [value |-> Chroma]
               /\ requests' = Moved(t, "test", "none", 0)
          ELSE /\ requests' = Moved(t, "create", "none", 0)
               /\ UNCHANGED db
    /\ UNCHANGED <<ingestFrame, chatbot, initialization_error,
                   conversation_stats>>

\* lines 344-365: the test query on the opened store; when it passes the
\* statistics are set, when it fails a new store is to be created
TestQuery(t) ==
    /\ Serving
    /\ requests[t].pc = "test"
    /\ \E ok \in BOOLEAN :
          IF ok
          THEN /\ SetLoaded
               /\ requests' = Moved(t, "chatbot", "none", 0)
          ELSE /\ requests' = Moved(t, "create", "none", 0)
               /\ UNCHANGED conversation_stats
    /\ UNCHANGED <<ingestFrame, chatbot, db, initialization_error>>

\* lines 366-390 and 393-416 in a request: no document, or an exception of
\* preprocess_whatsapp_data or create_vector_database_with_logging, sets
\* the error and returns False; otherwise the handle is assigned to db and
\* the statistics are set
CreateDatabase(t) ==
    /\ Serving
    /\ requests[t].pc = "create"
    /\ \E outcome \in {"no_docs", "raised", "created"} :
          IF outcome = "created"
          THEN /\ db' = [value |-> Chroma]
               /\ SetLoaded
               /\ requests' = Moved(t, "chatbot", "none", 0)
               /\ UNCHANGED initialization_error
          ELSE /\ SetError(IF outcome = "no_docs"
                           THEN "Nenhuma conversa foi processada."
                           ELSE "Erro ao criar banco")
               /\ requests' = Moved(t, "returned", "False", 0)
               /\ UNCHANGED db
    /\ UNCHANGED <<ingestFrame, chatbot>>

\* lines 1157-1168: the response of force_initialize, 200 when
\* initialize_chatbot_sync returned True and 500 otherwise
Respond(t) ==
    /\ Serving
    /\ t \in RequestThreads
    /\ requests[t].pc = "returned"
    /\ requests' = Moved(t, "done", requests[t].success,
                         IF requests[t].success = "True" THEN 200 ELSE 500)
    /\ UNCHANGED <<ingestFrame, chatbot, db, initialization_error,
                   conversation_stats>>

\* ------------------------------------------------------------------------
\* Inputs
\* ------------------------------------------------------------------------

Authors == {"Ana", "Bia", "Caio", "Davi"}

\* "15/03/2023, 14:30"
T0 == <<"1", "5", "/", "0", "3", "/", "2", "0", "2", "3", ",", " ",
        "1", "4", ":", "3", "0">>
\* "16/03/2023, 14:30": exactly 24 hours after T0
T1 == <<"1", "6", "/", "0", "3", "/", "2", "0", "2", "3", ",", " ",
        "1", "4", ":", "3", "0">>
\* "16/03/23, 14:31": 24 hours and one minute after T0, 2-digit year
T2 == <<"1", "6", "/", "0", "3", "/", "2", "3", ",", " ",
        "1", "4", ":", "3", "1">>
\* "": no timestamp
T3 == << >>
\* "ontem": not a timestamp
T4 == <<"o", "n", "t", "e", "m">>
\* "2023-03-18T09:00:00": two days later, ISO format
T5 == <<"2", "0", "2", "3", "-", "0", "3", "-", "1", "8", "T",
        "0", "9", ":", "0", "0", ":", "0", "0">>

\* the text of the messages of an input whose text does not matter
SomeText == <<"o", "l", "a">>

\* a normalized message, as create_whatsapp_database appends it (285-291)
Msg(a, t, k) ==
    [author |-> a, message |-> SomeText, timestamp |-> t, index |-> k]

\* the message list with the given authors and timestamps
MsgList(as, ts) == [k \in 1..Len(as) |-> Msg(as[k], ts[k], k - 1)]

\* n copies of x
Rep(x, n) == [k \in 1..n |-> x]

\* all sequences over S of length at most n
SeqsUpTo(S, n) == UNION {[1..m -> S] : m \in 0..n}

\* the concatenation of a sequence of sequences
RECURSIVE Flatten(_)
Flatten(ss) == IF ss = << >> THEN << >> ELSE Head(ss) \o Flatten(Tail(ss))

\* length of the inputs whose authors are free
MaxLen == 6

\* length of the free tail of the inputs whose timestamps are free
MaxTail == 3

\* number of runs of the inputs made of runs of equal messages
MaxRuns == 3

\* longest of the inputs that reach the size cap
MaxLong == 103

\* repetitions of the three-author cycle in the inputs on the recent window
MaxCycle == 8

AuthorOrder == <<"Ana", "Bia", "Caio", "Davi">>

\* the author lists in which the authors first appear in AuthorOrder: one
\* list for each way of assigning at most four authors to the positions
FirstSeenOrdered(as) ==
    \A k \in 1..Len(as) :
        \E j \in 1..Len(AuthorOrder) :
            /\ as[k] = AuthorOrder[j]
            /\ \A h \in 1..(j - 1) :
                  \E l \in 1..(k - 1) : as[l] = AuthorOrder[h]

\* every such author list of length <= MaxLen, one timestamp
FreeAuthorInputs ==
    {MsgList(as, Rep(T0, Len(as))) :
        as \in {x \in SeqsUpTo(Authors, MaxLen) : FirstSeenOrdered(x)}}

\* four messages at T0 of one author, then every list of timestamps of
\* length <= MaxTail
FreeTimeInputs ==
    {MsgList(Rep("Ana", 4 + Len(ts)), Rep(T0, 4) \o ts) :
        ts \in SeqsUpTo({T0, T1, T2, T3, T4, T5}, MaxTail)}

\* runs of 1 or MinConversation equal messages
RunMsgs == {<<"Ana", T0>>, <<"Ana", T2>>, <<"Ana", T5>>}

RunInputs ==
    {LET flat == Flatten([k \in 1..Len(rs) |-> Rep(rs[k][1], rs[k][2])])
     IN  MsgList([k \in 1..Len(flat) |-> flat[k][1]],
                 [k \in 1..Len(flat) |-> flat[k][2]]) :
        rs \in SeqsUpTo(RunMsgs \X {1, MinConversation}, MaxRuns)}

\* long inputs with no time gap, of one author or of two alternating
\* authors, with 99 .. MaxLong messages
LongInputs ==
    {MsgList([k \in 1..n |-> IF k % 2 = 0 THEN b ELSE "Ana"], Rep(t, n)) :
        n \in (MaxConversation - 1)..MaxLong, b \in {"Ana", "Bia"},
        t \in {T0, T3}}

\* one author, then a cycle of three others, then a last message
CycleInputs ==
    {MsgList(<<a>> \o [k \in 1..(3 * n + r) |->
                          <<"Ana", "Bia", "Caio">>[(k % 3) + 1]] \o <<z>>,
             Rep(T0, 3 * n + r + 2)) :
        n \in (MaxCycle - 2)..MaxCycle, r \in 0..2,
        a \in {"Davi", "Ana"}, z \in {"Davi", "Ana"}}

\* longest of the inputs of one author with short gaps
MaxQuiet == 12

\* "15/03/2023, 14:mm"
Clock(mm) ==
    <<"1", "5", "/", "0", "3", "/", "2", "0", "2", "3", ",", " ",
      "1", "4", ":">> \o (IF mm < 10 THEN <<"0">> ELSE << >>) \o str(mm)

\* one author, a message every 4 minutes
QuietInputs ==
    {MsgList(Rep(a, n), [k \in 1..n |-> Clock(4 * k)]) :
        n \in (MaxQuiet - 2)..MaxQuiet, a \in {"Ana", "Bia"}}

BoundaryInputs ==
    FreeAuthorInputs \cup FreeTimeInputs \cup RunInputs
        \cup LongInputs \cup CycleInputs \cup QuietInputs

\* window sizes and message counts of the free windower inputs
MaxSize == 7
MaxSmallN == 16

\* message counts of the windower inputs with the sizes the program uses
MaxN == 105

\* every (size, overlap) with overlap < size <= MaxSize, overlap >= -1
SmallParams == {so \in (1..MaxSize) \X (-1..MaxSize) : so[2] < so[1]}

\* chunk_size=40, overlap=15 of create_whatsapp_database (line 307) and
\* the defaults chunk_size=30, overlap=10 (line 162)
UsedParams == {<<40, 15>>, <<30, 10>>}

\* n messages of two alternating authors
PlainInput(n) ==
    MsgList([k \in 1..n |-> IF k % 2 = 0 THEN "Bia" ELSE "Ana"], Rep(T0, n))

\* raw records of the simple mode: a kept text, a text that is too short,
\* a system notice, and a kept text without timestamp whose cleaned text
\* is empty
R1 == [author |-> "Ana", timestamp |-> T0,
       message |-> <<"b", "o", "m", " ", "d", "i", "a">>]
R2 == [author |-> "Bia", timestamp |-> T0, message |-> <<" ", "o", "i", " ">>]
R3 == [author |-> "Bia", timestamp |-> T1,
       message |-> <<"<", "M", "e", "d", "i", "a", " ",
                     "o", "m", "i", "t", "t", "e", "d", ">">>]
R4 == [author |-> "Desconhecido", timestamp |-> T3,
       message |-> <<"*", "*", "*", "\n">>]

\* length of the free inputs of the simple mode
MaxData == 4

\* longest of the inputs of equal or alternating records
MaxSimpleLong == 23

SimpleInputs ==
    SeqsUpTo({R1, R2, R3, R4}, MaxData)
        \cup {[k \in 1..n |-> IF k % 2 = 0 THEN b ELSE a] :
                n \in (AppWindow - 1)..MaxSimpleLong,
                a \in {R1, R4}, b \in {R1, R4}}


\* number of words of the free texts of extract_keywords
MaxWords == 4

\* the words of the texts: stoplist words, short words, words in two
\* cases, words followed by punctuation, a word with and without accent
KeywordWords ==
    {<<"e", "l", "e">>, <<"o", "k">>, <<"o", "i">>,
     <<"S", "o", "l", "!">>, <<"s", "o", "l">>, <<"m", "a", "r", ",">>,
     <<"t", "a", "m", "b", "é", "m">>, <<"t", "a", "m", "b", "e", "m">>}

\* ' '.join(ws)
RECURSIVE JoinWords(_)
JoinWords(ws) ==
    IF ws = << >> THEN << >>
    ELSE IF Len(ws) = 1 THEN ws[1]
    ELSE ws[1] \o <<" ">> \o JoinWords(Tail(ws))

\* "eu vou e ele também"
AllStopText ==
    JoinWords(<<<<"e", "u">>, <<"v", "o", "u">>, <<"e">>, <<"e", "l", "e">>, <<"t", "a", "m", "b", "é", "m">>>>)

\* "eu vou e ele tambem"
NoAccentText ==
    JoinWords(<<<<"e", "u">>, <<"v", "o", "u">>, <<"e">>, <<"e", "l", "e">>, <<"t", "a", "m", "b", "e", "m">>>>)

KeywordInputs ==
    {JoinWords(ws) : ws \in SeqsUpTo(KeywordWords, MaxWords)}
        \cup {AllStopText, NoAccentText}

\* the two-digit numbers written as days, months and years of the
\* timestamps parsed: a day that is also a month, a day that is not, the
\* last day of a month; the years around the pivot of %y
StampDays == {<<"0", "3">>, <<"1", "5">>, <<"3", "1">>}

StampMonths == {<<"0", "3">>, <<"0", "4">>, <<"1", "2">>, <<"1", "3">>}

StampYears ==
    {<<"2", "0", "2", "3">>, <<"2", "3">>, <<"0", "0">>, <<"6", "8">>,
     <<"6", "9">>, <<"9", "9">>}

StampSeps == {<<",", " ">>, <<" ">>}

StampTimes == {<<"1", "4", ":", "3", "0">>, <<"0", "9", ":", "0", "5">>}

\* "dd/mm/yy, HH:MM" and its variants
TimestampInputs ==
    {dd \o <<"/">> \o mm \o <<"/">> \o yy \o sep \o hm :
        dd \in StampDays, mm \in StampMonths, yy \in StampYears,
        sep \in StampSeps, hm \in StampTimes}

\* number of full batches of the longest list of documents submitted
MaxBatches == 5

\* a document of a submitted list: the document of five messages numbered k
SomeDocument(k) ==
    ChunkDocument(PlainInput(MinConversation), k, <<"Ana", "Bia">>)

\* the lists of 1 .. MaxStartup documents
StartupLists ==
    {[k \in 1..n |-> SomeDocument(k - 1)] : n \in 1..MaxStartup}

\* the lists of 0 .. MaxBatches * b documents
DocumentLists(b) ==
    {[k \in 1..n |-> SomeDocument(k - 1)] : n \in 0..(MaxBatches * b)}

\* raw records of create_whatsapp_database: a kept text, a kept text of 2
\* characters, two system notices in mixed case with whitespace around, an
\* empty text, a text of control characters only, a text of 1 character,
\* and a text with whitespace to collapse
D1 == [author |-> "Ana", timestamp |-> T0, message |-> <<"b", "o", "m", " ", "d", "i", "a">>]
D2 == [author |-> "Bia", timestamp |-> T0, message |-> <<" ", "o", "i", " ">>]
D3 == [author |-> "Bia", timestamp |-> T1, message |-> <<"<", "M", "e", "d", "i", "a", " ", "o", "m", "i", "t", "t", "e", "d", ">">>]
D4 == [author |-> "Ana", timestamp |-> T0, message |-> <<" ", "M", "e", "n", "s", "a", "g", "e", "m", " ", "A", "p", "a", "g", "a", "d", "a", "\n">>]
D5 == [author |-> "Caio", timestamp |-> T3, message |-> <<" ", " ">>]
D6 == [author |-> "Ana", timestamp |-> T4, message |-> <<"^A", " ", "^?">>]
D7 == [author |-> "Bia", timestamp |-> T0, message |-> <<"a">>]
D8 == [author |-> "Caio", timestamp |-> T2, message |-> <<"s", "o", "l", " ", " ", "m", "a", "r", ",", "\t", "S", "o", "l">>]

DatabaseRecords == {D1, D2, D3, D4, D5, D6, D7, D8}

\* length of the free transcripts
MaxRaw == 3

\* length of the transcripts of blocks of records a day apart
MaxBlock == 14

\* length of the transcript that gives two chunks
MaxLongData == 41

\* "dd/03/2023, 14:30"
DayStamp(dd) ==
    (IF dd < 10 THEN <<"0">> ELSE << >>) \o str(dd)
        \o <<"/", "0", "3", "/", "2", "0", "2", "3", ",", " ",
             "1", "4", ":", "3", "0">>

\* n records of two alternating authors, two days between each block of 6
\* records and the next, every fourth record a system notice
BlockData(n) ==
    [k \in 1..n |->
        IF k % 4 = 0 THEN D4
        ELSE [author    |-> IF k % 2 = 0 THEN "Bia" ELSE "Ana",
              timestamp |-> DayStamp(2 * ((k - 1) \div 6) + 1),
              message   |-> IF k % 3 = 0 THEN <<"m", "a", "r">>
                                         ELSE <<"s", "o", "l">>]]

\* length of the transcripts whose timestamps are free
MaxTimed == 5

\* the transcripts of MaxTimed kept records of two alternating authors,
\* each timestamp one of T0, T2 (a day later) and T4 (not a timestamp)
TimedData ==
    {[k \in 1..MaxTimed |->
         [author    |-> IF k % 2 = 0 THEN "Bia" ELSE "Ana",
          timestamp |-> ts[k],
          message   |-> <<"s", "o", "l">>]] :
        ts \in [1..MaxTimed -> {T0, T2, T4}]}

DatabaseInputs ==
    SeqsUpTo(DatabaseRecords, MaxRaw)
        \cup {BlockData(n) : n \in 5..MaxBlock}
        \cup {BlockData(MaxLongData)}
        \cup TimedData

\* ------------------------------------------------------------------------
\* Specifications
\* ------------------------------------------------------------------------

\* the simple mode does not run
PipelineIdle ==
    /\ valid_messages = << >>
    /\ doc_id = 0
    /\ vector_db = NoHandle
    /\ store = << >>
    /\ calls = << >>
    /\ returned = Running
    /\ log = << >>
    /\ ServerIdle
    /\ text = << >>
    /\ keywords = << >>
    /\ parsed_time = None

SimpleIdle ==
    /\ data = << >>
    /\ conversation_window = << >>
    /\ last_timestamp = [set |-> FALSE, value |-> << >>]
    /\ conversation_id = 0
    /\ documents = << >>
    /\ participants = {}
    /\ run = 1
    /\ previous = << >>

InitBoundaries ==
    /\ prog = "boundaries"
    /\ pc = "call"
    /\ messages \in BoundaryInputs
    /\ i = 0
    /\ current_conversation = << >>
    /\ conversations = << >>
    /\ chunk_size = 0
    /\ overlap = 0
    /\ chunks = << >>
    /\ SimpleIdle
    /\ PipelineIdle

InitChunks ==
    /\ prog = "chunks"
    /\ pc = "call"
    /\ \E n \in 0..MaxN, so \in SmallParams \cup UsedParams :
          /\ so \in SmallParams => n <= MaxSmallN
          /\ messages = PlainInput(n)
          /\ chunk_size = so[1]
          /\ overlap = so[2]
    /\ i = 0
    /\ current_conversation = << >>
    /\ conversations = << >>
    /\ chunks = << >>
    /\ SimpleIdle
    /\ PipelineIdle

InitSimple ==
    /\ prog \in {"rag", "app"}
    /\ pc = "call"
    /\ data \in SimpleInputs
    /\ messages = << >>
    /\ i = 0
    /\ current_conversation = << >>
    /\ conversations = << >>
    /\ chunk_size = 0
    /\ overlap = 0
    /\ chunks = << >>
    /\ conversation_window = << >>
    /\ last_timestamp = [set |-> FALSE, value |-> << >>]
    /\ conversation_id = 0
    /\ documents = << >>
    /\ participants = {}
    /\ run = 1
    /\ previous = << >>
    /\ PipelineIdle

\* the entry points that `documents` is not an argument of do not run
Idle ==
    /\ messages = << >>
    /\ i = 0
    /\ current_conversation = << >>
    /\ conversations = << >>
    /\ chunk_size = 0
    /\ overlap = 0
    /\ chunks = << >>
    /\ SimpleIdle

InitKeywords ==
    /\ prog = "keywords"
    /\ pc = "call"
    /\ text \in KeywordInputs
    /\ keywords = << >>
    /\ parsed_time = None
    /\ Idle
    /\ valid_messages = << >>
    /\ doc_id = 0
    /\ vector_db = NoHandle
    /\ store = << >>
    /\ calls = << >>
    /\ returned = Running
    /\ log = << >>
    /\ ServerIdle

\* parse_timestamp is about to be called on a timestamp string
InitTimestamp ==
    /\ prog = "timestamp"
    /\ pc = "call"
    /\ text \in TimestampInputs
    /\ keywords = << >>
    /\ parsed_time = None
    /\ Idle
    /\ valid_messages = << >>
    /\ doc_id = 0
    /\ vector_db = NoHandle
    /\ store = << >>
    /\ calls = << >>
    /\ returned = Running
    /\ log = << >>
    /\ ServerIdle

\* the submission stage starts on a list of documents
InitIngest ==
    /\ \/ prog = "ingest" /\ documents \in DocumentLists(TesteBatch)
       \/ prog = "app_db" /\ documents \in DocumentLists(AppBatch)
       \/ prog = "rag_db" /\ documents \in DocumentLists(RagBatch)
       \/ prog = "app_server" /\ documents \in StartupLists
    /\ pc = "create"
    /\ messages = << >>
    /\ i = 0
    /\ current_conversation = << >>
    /\ conversations = << >>
    /\ chunk_size = 0
    /\ overlap = 0
    /\ chunks = << >>
    /\ data = << >>
    /\ conversation_window = << >>
    /\ last_timestamp = [set |-> FALSE, value |-> << >>]
    /\ conversation_id = 0
    /\ participants = {}
    /\ run = 1
    /\ previous = << >>
    /\ PipelineIdle

InitDatabase ==
    /\ prog = "database"
    /\ pc = "call"
    /\ data \in DatabaseInputs
    /\ messages = << >>
    /\ i = 0
    /\ current_conversation = << >>
    /\ conversations = << >>
    /\ chunk_size = 0
    /\ overlap = 0
    /\ chunks = << >>
    /\ conversation_window = << >>
    /\ last_timestamp = [set |-> FALSE, value |-> << >>]
    /\ conversation_id = 0
    /\ documents = << >>
    /\ participants = {}
    /\ run = 1
    /\ previous = << >>
    /\ PipelineIdle

Init ==
    \/ InitBoundaries \/ InitChunks \/ InitSimple \/ InitKeywords
    \/ InitIngest \/ InitDatabase \/ InitTimestamp

NextBoundaries == BoundaryCall \/ BoundaryStep \/ BoundaryFlush

NextChunks == ChunkCall \/ ChunkStep \/ ChunkReturn

NextSimple == SimpleCall \/ RagStep \/ AppStep \/ SimpleFlush

NextKeywords == ExtractKeywords

NextIngest ==
    \/ TesteCreate \/ TesteAppend \/ TesteReturn
    \/ AppCreate \/ AppAppend \/ AppReturn
    \/ RagCreate \/ RagAppend \/ RagReturn
    \/ StartupCreated \/ CreateChatbot(MainThread)

NextStartup ==
    \/ AppCreate \/ AppAppend \/ AppReturn
    \/ StartupCreated \/ CreateChatbot(MainThread)

NextServer ==
    \/ Serve
    \/ \E t \in RequestThreads :
          \/ ForceInitialize(t) \/ Configure(t) \/ OpenDatabase(t)
          \/ TestQuery(t) \/ CreateDatabase(t) \/ CreateChatbot(t)
          \/ Respond(t)

NextDatabase ==
    \/ DatabaseCall \/ FilterStep \/ Partition
    \/ ConversationDoc \/ ConversationsDone \/ ChunkDoc \/ ChunksDone

NextTimestamp == ParseTimestamp

Next ==
    \/ NextBoundaries \/ NextChunks \/ NextSimple \/ NextKeywords
    \/ NextIngest \/ NextDatabase \/ NextTimestamp \/ NextServer

SpecBoundaries == InitBoundaries /\ [][NextBoundaries]_vars

NextRerun == NextBoundaries \/ BoundaryAgain

SpecRerun == InitBoundaries /\ [][NextRerun]_vars

SpecChunks == InitChunks /\ [][NextChunks]_vars

SpecSimple == InitSimple /\ [][NextSimple]_vars

SpecKeywords == InitKeywords /\ [][NextKeywords]_vars

SpecTimestamp == InitTimestamp /\ [][NextTimestamp]_vars

SpecIngest == InitIngest /\ [][NextIngest]_vars

\* the startup of app.py on a transcript that gives 1 .. MaxStartup
\* documents
InitStartup == InitIngest /\ prog \in AppServer

\* app.py: the startup, then the server
SpecServer == InitStartup /\ [][NextStartup \/ NextServer]_vars

\* create_whatsapp_database up to the list of documents
SpecDatabase == InitDatabase /\ [][NextDatabase]_vars

\* the filters of the three pipelines
SpecFilters ==
    (InitDatabase \/ InitSimple) /\ [][NextDatabase \/ NextSimple]_vars

Spec == Init /\ [][Next]_vars

\* ------------------------------------------------------------------------
\* Properties
\* ------------------------------------------------------------------------

\* the set of the values `index` of the messages of a unit
Indices(unit) == {unit[k].index : k \in 1..Len(unit)}

\* C1: every segment of the boundary detector and every window of the
\* windower has at least 5 messages, and every document of the simple
\* mode (rag.py, app.py) is built from at least 3 messages.
C1_MinimumLength ==
    /\ \A k \in 1..Len(conversations) : Len(conversations[k]) >= 5
    /\ \A k \in 1..Len(chunks) : Len(chunks[k]) >= 5
    /\ \A k \in 1..Len(documents) :
          /\ documents[k].metadata.message_count.v >= 3
          /\ documents[k].page_content.count >= 3

\* a run of the detector that emitted a segment and dropped a last
\* accumulator of 1 to 4 messages
C1_Witness ==
    /\ prog = "boundaries"
    /\ pc = "done"
    /\ Len(conversations) >= 1
    /\ Len(current_conversation) \in 1..4

\* C2: the segments are pairwise disjoint contiguous runs of the input in
\* input order; together with the accumulator they are the messages read
\* so far, and at the end their concatenation is the input without a
\* suffix of fewer than 5 messages, which is the last accumulator.
C2_SegmentsPartitionInput ==
    prog = "boundaries" /\ pc \in {"loop", "done"} =>
        LET flat == Flatten(conversations)
        IN  /\ \A k \in 1..Len(conversations) : conversations[k] # << >>
            /\ \A k, l \in 1..Len(conversations) :
                  k # l => Indices(conversations[k])
                              \cap Indices(conversations[l]) = {}
            /\ pc = "loop" =>
                  flat \o current_conversation = SubSeq(messages, 1, i)
            /\ pc = "done" =>
                  \E n \in 0..4 :
                     /\ flat = SubSeq(messages, 1, Len(messages) - n)
                     /\ n > 0 =>
                          current_conversation =
                             SubSeq(messages, Len(messages) - n + 1,
                                    Len(messages))

\* a finished run with two segments and a dropped last accumulator
C2_Witness ==
    /\ prog = "boundaries"
    /\ pc = "done"
    /\ Len(conversations) >= 2
    /\ Len(current_conversation) \in 1..4
    /\ Len(Flatten(conversations)) + Len(current_conversation) = Len(messages)

\* the messages that are in no window
Uncovered ==
    Indices(messages) \ UNION {Indices(chunks[k]) : k \in 1..Len(chunks)}

\* the messages outside the windows are the last n of the input, n < 5
ShortTailUncovered ==
    \E n \in 0..4 :
        Uncovered = {messages[k].index :
                        k \in (Len(messages) - n + 1)..Len(messages)}

\* C3 as stated: for every size and overlap with overlap < size, every
\* message is in a window except a trailing group of fewer than 5.
C3_Original ==
    prog = "chunks" /\ pc = "done" /\ overlap < chunk_size =>
        ShortTailUncovered

\* C3, amended: the same for 5 <= size and 0 <= overlap < size.
C3_Coverage ==
    prog = "chunks" /\ pc = "done" /\ chunk_size >= 5
            /\ overlap >= 0 /\ overlap < chunk_size =>
        ShortTailUncovered

\* windows were emitted and a short tail is in none of them
C3_Witness ==
    /\ prog = "chunks"
    /\ pc = "done"
    /\ chunk_size >= 5
    /\ overlap >= 1
    /\ Len(chunks) >= 2
    /\ Uncovered # {}

\* seconds from 2000-01-01 00:00:00 to a datetime
SecondsSince2000(t) == (toordinal(t) - 730120) * 86400 + SecondOfDay(t)

\* a is more than 24 hours after b
MoreThan24h(a, b) ==
    LET d == SecondsSince2000(a) - SecondsSince2000(b)
    IN  d > 86400 \/ (d = 86400 /\ a.microsecond > b.microsecond)

\* the detector is about to read a message with a non-empty accumulator
InStep ==
    /\ prog = "boundaries"
    /\ pc = "loop"
    /\ i < Len(messages)
    /\ current_conversation # << >>

Incoming == messages[i + 1]

LastAccumulated == current_conversation[Len(current_conversation)]

\* the authors of the last 20 messages of a unit
Last20Authors(unit) ==
    {unit[k].author :
        k \in (IF Len(unit) > 20 THEN Len(unit) - 19 ELSE 1)..Len(unit)}

\* the three rules, on the incoming message m and the accumulator acc
GapRule(m, acc) ==
    /\ parse_timestamp(m.timestamp).ok
    /\ parse_timestamp(acc[Len(acc)].timestamp).ok
    /\ MoreThan24h(parse_timestamp(m.timestamp),
                   parse_timestamp(acc[Len(acc)].timestamp))

CapRule(acc) == Len(acc) > 100

ShiftRule(m, acc) ==
    /\ Cardinality(Last20Authors(acc)) > 2
    /\ m.author \notin Last20Authors(acc)

\* the step closes the accumulator and starts a new one with the message
SplitHappens ==
    /\ conversations' = Append(conversations, current_conversation)
    /\ current_conversation' = <<Incoming>>

\* the step appends the message to the accumulator
AppendHappens ==
    /\ conversations' = conversations
    /\ current_conversation' = Append(current_conversation, Incoming)

\* the last step was a split: the state right after it
JustSplit ==
    /\ prog = "boundaries"
    /\ pc = "loop"
    /\ Len(conversations) >= 1
    /\ Len(current_conversation) = 1
    /\ i >= 2

LastSegment == conversations[Len(conversations)]

\* C4: when both times are parsed, more than 24 hours apart, and the
\* accumulator has at least 5 messages, the accumulator is emitted before
\* the incoming message; a gap of 24 hours or less causes no split when
\* the other two rules do not fire.
C4_TemporalGapRule ==
    [][InStep =>
        /\ (GapRule(Incoming, current_conversation)
                /\ Len(current_conversation) >= 5) => SplitHappens
        /\ (/\ parse_timestamp(Incoming.timestamp).ok
            /\ parse_timestamp(LastAccumulated.timestamp).ok
            /\ ~MoreThan24h(parse_timestamp(Incoming.timestamp),
                            parse_timestamp(LastAccumulated.timestamp))
            /\ ~CapRule(current_conversation)
            /\ ~ShiftRule(Incoming, current_conversation)) => AppendHappens
    ]_vars

\* right after a split that only the temporal gap can have caused
C4_Witness ==
    /\ JustSplit
    /\ GapRule(current_conversation[1], LastSegment)
    /\ ~CapRule(LastSegment)
    /\ ~ShiftRule(current_conversation[1], LastSegment)

\* C5: when the accumulator holds more than 100 messages as the next
\* message arrives, it is emitted and the message starts a new one,
\* whatever the timestamps and the authors.
C5_SizeCapRule ==
    [][InStep /\ CapRule(current_conversation) => SplitHappens]_vars

\* right after a split of an accumulator of 101 messages that neither
\* the times nor the authors can have caused
C5_Witness ==
    /\ JustSplit
    /\ Len(LastSegment) = 101
    /\ ~GapRule(current_conversation[1], LastSegment)
    /\ ~ShiftRule(current_conversation[1], LastSegment)

\* C6: a split is forced when the last 20 accumulated messages have more
\* than 2 authors, the incoming author is not one of them and the
\* accumulator has at least 5 messages; otherwise this rule forces none:
\* without the other two rules the message is appended.
C6_ParticipantShiftRule ==
    [][InStep =>
        /\ (ShiftRule(Incoming, current_conversation)
                /\ Len(current_conversation) >= 5) => SplitHappens
        /\ (/\ ~ShiftRule(Incoming, current_conversation)
            /\ ~GapRule(Incoming, current_conversation)
            /\ ~CapRule(current_conversation)) => AppendHappens
    ]_vars

\* right after a split by the authors alone, on an author who wrote in
\* the closed segment before its last 20 messages
C6_Witness ==
    /\ JustSplit
    /\ ShiftRule(current_conversation[1], LastSegment)
    /\ \E k \in 1..Len(LastSegment) :
          LastSegment[k].author = current_conversation[1].author
    /\ ~GapRule(current_conversation[1], LastSegment)
    /\ ~CapRule(LastSegment)

\* C7: when the time of the incoming or of the last accumulated message
\* cannot be parsed, the loop goes on, and the message is placed by the
\* size cap and the participant shift alone.
C7_MissingTimes ==
    [][(/\ InStep
        /\ \/ ~parse_timestamp(Incoming.timestamp).ok
           \/ ~parse_timestamp(LastAccumulated.timestamp).ok) =>
        /\ i' = i + 1
        /\ pc' = "loop"
        /\ IF /\ \/ CapRule(current_conversation)
                 \/ ShiftRule(Incoming, current_conversation)
              /\ Len(current_conversation) >= 5
           THEN SplitHappens
           ELSE AppendHappens
    ]_vars

\* an accumulator of at least 7 messages whose last but one has no time,
\* while its neighbours are more than 24 hours apart
C7_Witness ==
    /\ prog = "boundaries"
    /\ pc = "loop"
    /\ Len(current_conversation) >= 7
    /\ LET n == Len(current_conversation)
           a == parse_timestamp(current_conversation[n - 2].timestamp)
           b == parse_timestamp(current_conversation[n - 1].timestamp)
           c == parse_timestamp(current_conversation[n].timestamp)
       IN  a.ok /\ ~b.ok /\ c.ok /\ MoreThan24h(c, a)

CeilDiv(a, b) == (a + b - 1) \div b

Max(a, b) == IF a >= b THEN a ELSE b

\* the slices at the cursors 0, step, 2*step, ... below N that have at
\* least 5 messages, in the order of the cursors
ExpectedWindows ==
    LET N    == Len(messages)
        step == chunk_size - overlap
        all  == [k \in 1..CeilDiv(N, step) |->
                    SubSeq(messages, (k - 1) * step + 1,
                           Min((k - 1) * step + chunk_size, N))]
    IN  SelectSeq(all, LAMBDA w : Len(w) >= 5)

\* C9: the windower returns exactly the slices
\* messages[c : min(c+size, N)] of at least 5 messages at the cursors
\* c = 0, size-overlap, 2*(size-overlap), ... < N, in cursor order; for
\* N=12, size=5, overlap=2 these start at 0, 3, 6 (the one at 9 has 3).
C9_WindowerAlgorithm ==
    prog = "chunks" /\ pc = "done" =>
        /\ chunks = ExpectedWindows
        /\ (Len(messages) = 12 /\ chunk_size = 5 /\ overlap = 2) =>
              [k \in 1..Len(chunks) |-> chunks[k][1].index] = <<0, 3, 6>>

\* the run on 12 messages with size 5 and overlap 2
C9_Witness ==
    /\ prog = "chunks"
    /\ pc = "done"
    /\ Len(messages) = 12
    /\ chunk_size = 5
    /\ overlap = 2
    /\ Len(chunks) = 3

\* C10 as stated: with size 40 and overlap 15 the number of windows is
\* ceil(max(0, N - 15) / 25).
C10_Original ==
    prog = "chunks" /\ pc = "done" /\ chunk_size = 40 /\ overlap = 15 =>
        Len(chunks) = CeilDiv(Max(0, Len(messages) - 15), 25)

\* C10, amended: with size 40 and overlap 15 the number of windows is
\* ceil(max(0, N - 4) / 25); for N = 100 it is 4.
C10_WindowCount ==
    prog = "chunks" /\ pc = "done" /\ chunk_size = 40 /\ overlap = 15 =>
        /\ Len(chunks) = CeilDiv(Max(0, Len(messages) - 4), 25)
        /\ Len(messages) = 100 => Len(chunks) = 4

\* the run on 100 messages with size 40 and overlap 15
C10_Witness ==
    /\ prog = "chunks"
    /\ pc = "done"
    /\ chunk_size = 40
    /\ overlap = 15
    /\ Len(messages) = 100
    /\ Len(chunks) = 4

\* the messages have one author and no two consecutive ones are more than
\* 24 hours apart
NoRuleFires ==
    /\ Cardinality({messages[k].author : k \in 1..Len(messages)}) = 1
    /\ \A k \in 1..(Len(messages) - 1) :
          ~GapRule(messages[k + 1], <<messages[k]>>)

\* C11: an input of 5 to 100 messages of one author without a gap of more
\* than 24 hours comes back as one segment holding all the messages in
\* input order.
C11_SingleSegment ==
    (/\ prog = "boundaries"
     /\ pc = "done"
     /\ Len(messages) \in 5..100
     /\ NoRuleFires) => conversations = <<messages>>

\* the run on 12 messages of one author, 4 minutes apart
C11_Witness ==
    /\ prog = "boundaries"
    /\ pc = "done"
    /\ Len(messages) = 12
    /\ NoRuleFires
    /\ \A k \in 1..11 :
          SecondsSince2000(parse_timestamp(messages[k + 1].timestamp))
             - SecondsSince2000(parse_timestamp(messages[k].timestamp)) = 240
    /\ conversations = <<messages>>

\* the words of `text` in lower case, left to right
TextWords == findall_words(lower(text))

\* number of occurrences of a word in a list of words
Occurrences(w, tw) == Cardinality({k \in 1..Len(tw) : tw[k] = w})

\* position of the first occurrence of a word in a list of words
FirstOccurrence(w, tw) ==
    CHOOSE k \in 1..Len(tw) :
        /\ tw[k] = w
        /\ \A j \in 1..(k - 1) : tw[j] # w

\* no keyword is a stoplist word or a word of 2 characters or less
NoStopNoShort ==
    \A k \in 1..Len(keywords) :
        /\ keywords[k] \notin stopwords
        /\ Len(keywords[k]) > 2

\* C16 as stated: no keyword is in the stoplist or has 2 characters or
\* less, and "eu vou e ele tambem" has no keywords.
C16_Original ==
    prog = "keywords" /\ pc = "done" =>
        /\ NoStopNoShort
        /\ text = NoAccentText => keywords = << >>

\* C16, amended: no keyword is in the stoplist or has 2 characters or
\* less, and "eu vou e ele também" has no keywords, while
\* "eu vou e ele tambem" has the keyword "tambem".
C16_KeywordsExcludeStoplist ==
    prog = "keywords" /\ pc = "done" =>
        /\ NoStopNoShort
        /\ text = AllStopText => keywords = << >>
        /\ text = NoAccentText => keywords = <<TextWords[5]>>

\* extract_keywords has returned on a text with a stoplist word, a word
\* of 2 characters and a word that is kept
C16_Witness ==
    /\ prog = "keywords"
    /\ pc = "done"
    /\ \E a, b \in 1..Len(TextWords) :
          /\ TextWords[a] \in stopwords
          /\ Len(TextWords[b]) = 2 /\ TextWords[b] \notin stopwords
    /\ keywords # << >>

\* C17: the keywords are the kept words of the text, each once, in
\* descending order of their number of occurrences, and words with the
\* same number are in the order of their first occurrence.
C17_KeywordOrder ==
    prog = "keywords" /\ pc = "done" =>
        LET tw == TextWords
        IN  /\ {keywords[k] : k \in 1..Len(keywords)} =
                  {tw[k] : k \in {j \in 1..Len(tw) :
                                     /\ Len(tw[j]) > 2
                                     /\ tw[j] \notin stopwords}}
            /\ \A a, b \in 1..Len(keywords) :
                  a < b =>
                     /\ keywords[a] # keywords[b]
                     /\ \/ Occurrences(keywords[a], tw)
                              > Occurrences(keywords[b], tw)
                        \/ /\ Occurrences(keywords[a], tw)
                                 = Occurrences(keywords[b], tw)
                           /\ FirstOccurrence(keywords[a], tw)
                                 < FirstOccurrence(keywords[b], tw)

\* three keywords: the most frequent one, which is not the first word of
\* the text, then two that occur equally often
C17_Witness ==
    /\ prog = "keywords"
    /\ pc = "done"
    /\ Len(keywords) = 3
    /\ LET tw == TextWords
       IN  /\ Occurrences(keywords[1], tw) > Occurrences(keywords[2], tw)
           /\ Occurrences(keywords[2], tw) = Occurrences(keywords[3], tw)
           /\ FirstOccurrence(keywords[1], tw)
                 > FirstOccurrence(keywords[2], tw)

\* a submission stage runs or has run
Ingesting == prog \in TesteIngest \cup AppIngest /\ pc \in {"append", "done"}

\* the submission stage is over
Ingested == prog \in TesteIngest \cup AppIngest /\ pc = "done"

BatchSize == IF prog \in AppIngest THEN 5 ELSE 10

\* the calls that submit documents, in the order they were made
Submissions ==
    SelectSeq(calls, LAMBDA c : c.op \in {"from_documents", "add_documents"})

\* the documents submitted so far, in the order they were submitted
Submitted == Flatten([k \in 1..Len(Submissions) |-> Submissions[k].documents])

\* the creation call is the first call, the only one of its kind, and on
\* the first BatchSize documents; all other submissions are appends of at
\* most BatchSize documents each, made once each in index order
SubmissionOrder ==
    LET sub == Submissions
    IN  /\ calls[1].op = "from_documents"
        /\ calls[1].documents =
              SubSeq(documents, 1, Min(BatchSize, Len(documents)))
        /\ \A k \in 2..Len(calls) : calls[k].op # "from_documents"
        /\ \A k \in 1..Len(sub) : Len(sub[k].documents) <= BatchSize
        /\ \A k \in 2..Len(sub) : sub[k].documents # << >>
        /\ Len(Submitted) <= Len(documents)
        /\ Submitted = SubSeq(documents, 1, Len(Submitted))

\* C12 as stated: the creation call is made once, first, on the first
\* batchSize documents; every later batch is appended once, in index
\* order, with at most batchSize documents, and the batches cover every
\* document once.
C12_Original ==
    /\ Ingesting => SubmissionOrder
    /\ Ingested => Submitted = documents

\* C12, amended: the same when the creation call succeeds; when it fails
\* the run ends with no append call.
C12_IngestOrder ==
    /\ Ingesting => SubmissionOrder
    /\ Ingested =>
          IF calls[1].ok THEN Submitted = documents ELSE Len(Submissions) = 1

\* a finished run of at least 4 batches whose second batch failed
C12_Witness ==
    /\ Ingested
    /\ Len(Submissions) >= 4
    /\ Submissions[1].ok
    /\ ~Submissions[2].ok
    /\ Submissions[3].ok
    /\ Submitted = documents

\* the lines and values the run printed
Outputs == {log[k] : k \in 1..Len(log)}

\* the submissions that succeeded / failed
Succeeded == SelectSeq(Submissions, LAMBDA c : c.ok)

Failed == SelectSeq(Submissions, LAMBDA c : ~c.ok)

\* C13: when the store fails on a non-first batch the run does not throw,
\* submits every later batch, completes, and reports the number of
\* documents of the batches that succeeded and the number of batches that
\* failed.
C13_PartialFailureReport ==
    (Ingested /\ calls[1].ok /\ Failed # << >>) =>
        /\ returned = [value |-> Chroma]
        /\ Submitted = documents
        /\ \E r \in Outputs :
              /\ r.name = "documents_submitted"
              /\ r.value = Len(Flatten([k \in 1..Len(Succeeded) |->
                                           Succeeded[k].documents]))
        /\ \E r \in Outputs :
              /\ r.name = "failed_batches"
              /\ r.value = Len(Failed)

\* the part of C13 on the calls and the return value, without the report
PartialFailureTolerated ==
    (Ingested /\ calls[1].ok /\ Failed # << >>) =>
        /\ returned = [value |-> Chroma]
        /\ Submitted = documents
        /\ Len(log) >= Len(Failed)

\* C14: the store holds the documents of the submissions that succeeded,
\* in submission order and without duplicates, and no step removes a
\* document from it.
C14_NoRollback ==
    [][(prog \in TesteIngest \cup AppIngest) =>
        /\ store' = Flatten([k \in 1..Len(Succeeded') |->
                                Succeeded'[k].documents])
        /\ \A a, b \in 1..Len(store') : a # b => store'[a] # store'[b]
        /\ Len(store) <= Len(store')
        /\ store = SubSeq(store', 1, Len(store))
    ]_vars

\* a finished run whose store holds the batches before and after a failed
\* one, and not the failed one
C14_Witness ==
    /\ Ingested
    /\ Len(Submissions) >= 3
    /\ Submissions[1].ok /\ ~Submissions[2].ok /\ Submissions[3].ok
    /\ Len(store) >= Len(Submissions[1].documents)
                        + Len(Submissions[3].documents)
    /\ Len(store) < Len(documents)
    /\ \E k \in 1..Len(store) : store[k] = Submissions[3].documents[1]

\* the number a doc_id string stands for
DocNumber(d) == IntOf(d.metadata.doc_id.v, 1, Len(d.metadata.doc_id.v))

\* C15: the doc_id values of the documents of one run, conversations and
\* chunks together, are distinct and increase in the order of emission.
C15_DocIdsIncrease ==
    prog = "database" =>
        \A a, b \in 1..Len(documents) :
            a < b =>
               /\ documents[a].metadata.doc_id # documents[b].metadata.doc_id
               /\ DocNumber(documents[a]) < DocNumber(documents[b])
               /\ documents[a].page_content.doc_id
                     < documents[b].page_content.doc_id

\* two conversation documents followed by two chunk documents
C15_Witness ==
    /\ prog = "database"
    /\ pc = "create"
    /\ Len(documents) >= 4
    /\ \E k \in 2..(Len(documents) - 2) :
          /\ documents[k - 1].metadata.type.v = "conversation"
          /\ documents[k].metadata.type.v = "conversation"
          /\ documents[k + 1].metadata.type.v = "chunk"
          /\ documents[k + 2].metadata.type.v = "chunk"

\* the filter of create_whatsapp_database is about to read a record
InFilter == prog = "database" /\ pc = "filter" /\ i < Len(data)

\* the simple mode is about to read a record
InSimpleLoop == prog \in {"rag", "app"} /\ pc = "loop" /\ i < Len(data)

\* the text is one of the two notices, whatever its case and the
\* whitespace around it
IsNotice(m) ==
    strip(lower(m)) \in {s_mensagem_apagada,
                         <<"<">> \o s_media_omitted \o <<">">>}

\* the text is "oi" with whitespace around it
IsOi(m) == strip(m) = <<"o", "i">>

\* the record read is dropped / accepted by the filter of teste.py
Dropped == valid_messages' = valid_messages

Accepted ==
    /\ Len(valid_messages') = Len(valid_messages) + 1
    /\ SubSeq(valid_messages', 1, Len(valid_messages)) = valid_messages
    /\ valid_messages'[Len(valid_messages')].index = i

\* the record read is dropped by the filter of the simple mode
SimpleDropped == UNCHANGED <<conversation_window, documents, conversation_id>>

\* the parts of C18 that hold: "mensagem apagada" is dropped by teste.py,
\* both notices and "oi" are dropped by the simple mode, "oi" is accepted
\* by teste.py
FilteringThatHolds ==
    [][/\ InFilter =>
           (/\ (strip(lower(data[i + 1].message)) = s_mensagem_apagada
                  => Dropped)
            /\ (IsOi(data[i + 1].message) => Accepted))
       /\ InSimpleLoop =>
            ((IsNotice(data[i + 1].message) \/ IsOi(data[i + 1].message))
                => SimpleDropped)
    ]_vars

\* C18: "mensagem apagada" and "<Media omitted>" are dropped, whatever
\* their case and the whitespace around them; "oi" is accepted by the
\* filter of teste.py (minimum length 1) and dropped by the simple mode
\* (minimum length 3).
C18_SystemMessageFiltering ==
    [][/\ InFilter =>
           (/\ (IsNotice(data[i + 1].message) => Dropped)
            /\ (IsOi(data[i + 1].message) => Accepted))
       /\ InSimpleLoop =>
            ((IsNotice(data[i + 1].message) \/ IsOi(data[i + 1].message))
                => SimpleDropped)
    ]_vars

\* C19: the cleaned text of every message of valid_messages has at least
\* one character.
C19_TextNeverEmpty ==
    prog = "database" =>
        \A k \in 1..Len(valid_messages) : valid_messages[k].message # << >>

\* the messages of valid_messages whose raw text has a character that
\* clean_message keeps have a cleaned text of at least one character
TextEmptyOnlyForControls ==
    prog = "database" =>
        \A k \in 1..Len(valid_messages) :
            (\E j \in 1..Len(valid_messages[k].original_message) :
                valid_messages[k].original_message[j]
                    \notin ControlChars \cup Whitespace)
               => valid_messages[k].message # << >>

\* C20: the normalized messages are the surviving records in their order,
\* each with the position of its record in the transcript as index, so
\* the indices increase strictly.
C20_OrderPreserved ==
    prog = "database" /\ pc # "call" =>
        LET read == IF pc = "filter" THEN i ELSE Len(data)
        IN  /\ \A k \in 1..Len(valid_messages) :
                  LET j == valid_messages[k].index
                  IN  /\ j \in 0..(read - 1)
                      /\ valid_messages[k].author = data[j + 1].author
                      /\ valid_messages[k].timestamp = data[j + 1].timestamp
                      /\ valid_messages[k].original_message
                            = strip(data[j + 1].message)
            /\ \A a, b \in 1..Len(valid_messages) :
                  a < b => valid_messages[a].index < valid_messages[b].index
            /\ {valid_messages[k].index : k \in 1..Len(valid_messages)}
                  = {j \in 0..(read - 1) : Kept(data[j + 1])}

\* the filter is over, a record was dropped between two that survived
C20_Witness ==
    /\ prog = "database"
    /\ pc = "conversations"
    /\ Len(valid_messages) >= 2
    /\ \E k \in 2..Len(valid_messages) :
          valid_messages[k].index > valid_messages[k - 1].index + 1

\* position of the first line of the unit written by the author a
FirstLineOf(lines, a) ==
    CHOOSE j \in 1..Len(lines) :
        /\ lines[j].author = a
        /\ \A h \in 1..(j - 1) : lines[h].author # a

\* the participants of every document are the authors of its messages,
\* each once
ParticipantsDeduplicated ==
    prog = "database" =>
        \A k \in 1..Len(documents) :
            LET ps    == documents[k].page_content.participants
                lines == documents[k].page_content.lines
            IN  /\ {ps[a] : a \in 1..Len(ps)}
                      = {lines[j].author : j \in 1..Len(lines)}
                /\ \A a, b \in 1..Len(ps) : a # b => ps[a] # ps[b]
                /\ documents[k].metadata.participants.v = JoinNames(ps)

\* C21: the participants of every document are the authors of its
\* messages, each once, an author whose first message comes earlier in the
\* unit listed earlier.
C21_ParticipantsFirstSeen ==
    prog = "database" =>
        \A k \in 1..Len(documents) :
            LET ps    == documents[k].page_content.participants
                lines == documents[k].page_content.lines
            IN  /\ documents[k].metadata.participants.v = JoinNames(ps)
                /\ {ps[a] : a \in 1..Len(ps)}
                      = {lines[j].author : j \in 1..Len(lines)}
                /\ \A a, b \in 1..Len(ps) :
                      a < b => /\ ps[a] # ps[b]
                               /\ FirstLineOf(lines, ps[a])
                                     < FirstLineOf(lines, ps[b])

\* the lines of a unit whose timestamp parses
ParsedLines(lines) ==
    {j \in 1..Len(lines) : parse_timestamp(lines[j].timestamp).ok}

\* the least / greatest number of a set of numbers
Least(S) == CHOOSE x \in S : \A y \in S : x <= y

Greatest(S) == CHOOSE x \in S : \A y \in S : x >= y

\* start_time and end_time of the metadata md are those of the first and
\* of the last line with a parsed time, the empty string when no line has
\* one
TimesOfParsedLines(md, lines) ==
    LET parsed == ParsedLines(lines)
    IN  /\ "start_time" \in DOMAIN md
        /\ "end_time" \in DOMAIN md
        /\ IF parsed = {}
           THEN md.start_time.v = << >> /\ md.end_time.v = << >>
           ELSE /\ md.start_time.v = str_datetime(
                      parse_timestamp(lines[Least(parsed)].timestamp))
                /\ md.end_time.v = str_datetime(
                      parse_timestamp(lines[Greatest(parsed)].timestamp))

\* C22 as stated: every document, conversation or chunk, carries the
\* start_time and end_time of its first and last message with a parsed
\* time, or two empty strings.
C22_Original ==
    prog = "database" =>
        \A k \in 1..Len(documents) :
            TimesOfParsedLines(documents[k].metadata,
                               documents[k].page_content.lines)

\* C22: every conversation document carries the start_time and end_time
\* of its first and last message with a parsed time, or two empty strings
\* when no message has one, and is built whatever the timestamps are; a
\* chunk document carries neither.
C22_ConversationTimes ==
    prog = "database" =>
        /\ \A k \in 1..Len(documents) :
              IF documents[k].metadata.type.v = "conversation"
              THEN TimesOfParsedLines(documents[k].metadata,
                                      documents[k].page_content.lines)
              ELSE DOMAIN documents[k].metadata
                      \cap {"start_time", "end_time"} = {}
        /\ pc \in {"chunks", "create"} =>
              Cardinality({k \in 1..Len(documents) :
                              documents[k].metadata.type.v = "conversation"})
                 = Cardinality({k \in 1..Len(conversations) :
                                   Len(conversations[k]) >= MinConversation})

\* a conversation document whose first and last messages have no parsed
\* time and whose start_time and end_time differ, and one without any
\* parsed time
C22_Witness ==
    /\ prog = "database"
    /\ pc = "create"
    /\ documents # << >>
    /\ documents[1].metadata.type.v = "conversation"
    /\ LET lines == documents[1].page_content.lines
       IN  /\ 1 \notin ParsedLines(lines)
           /\ Len(lines) \notin ParsedLines(lines)
           /\ documents[1].metadata.start_time.v
                 = <<"2", "0", "2", "3", "-", "0", "3", "-", "1", "5", " ",
                     "1", "4", ":", "3", "0", ":", "0", "0">>
           /\ documents[1].metadata.end_time.v
                 = <<"2", "0", "2", "3", "-", "0", "3", "-", "1", "6", " ",
                     "1", "4", ":", "3", "1", ":", "0", "0">>

\* a conversation document built from messages without any parsed time
C22_WitnessNoTimes ==
    /\ prog = "database"
    /\ pc = "create"
    /\ documents # << >>
    /\ documents[1].metadata.type.v = "conversation"
    /\ ParsedLines(documents[1].page_content.lines) = {}
    /\ documents[1].metadata.start_time.v = << >>

\* C23: every metadata value of every document of the three pipelines is
\* a string or an integer; participants and keywords are the joined
\* strings, message_count is the integer number of messages of the unit.
C23_FlatScalarMetadata ==
    \A k \in 1..Len(documents) :
        LET md == documents[k].metadata
            pc_ == documents[k].page_content
        IN  /\ \A key \in DOMAIN md : md[key].py \in {"str", "int"}
            /\ md.message_count = PyInt(pc_.count)
            /\ prog = "database" => pc_.count = Len(pc_.lines)
            /\ md.participants = PyStr(JoinNames(pc_.participants))
            /\ "keywords" \in DOMAIN md => md.keywords.py = "str"

\* the documents of create_whatsapp_database are built, one of them by
\* two participants with two keywords
C23_Witness ==
    /\ prog = "database"
    /\ pc = "create"
    /\ \E k \in 1..Len(documents) :
          /\ documents[k].metadata.participants.v = <<"Ana", ", ", "Bia">>
          /\ documents[k].metadata.keywords.v
                = <<"s", "o", "l", ",", " ", "m", "a", "r">>
          /\ documents[k].metadata.message_count.v >= 5

\* a document of the simple mode with two participants is built
C23_WitnessSimple ==
    /\ prog \in {"rag", "app"}
    /\ \E k \in 1..Len(documents) :
          Len(documents[k].metadata.participants.v) = 3

\* the timestamp is written "dd/mm/yy, HH:MM" with a year of n digits
StampShape(t, n) ==
    /\ Len(t) = 13 + n
    /\ t[3] = "/"
    /\ t[6] = "/"
    /\ t[7 + n] = ","
    /\ t[8 + n] = " "
    /\ t[11 + n] = ":"

\* the numbers written in a timestamp of that shape
StampDay(t) == IntOf(t, 1, 2)

StampMonth(t) == IntOf(t, 4, 2)

StampYear(t, n) == IntOf(t, 7, n)

StampHour(t, n) == IntOf(t, 9 + n, 2)

StampMinute(t, n) == IntOf(t, 12 + n, 2)

\* what strptime's %y does: 00..68 are 2000..2068, 69..99 are 1969..1999
TwoDigitYearPivot ==
    prog = "timestamp" /\ pc = "done" /\ StampShape(text, 2) /\ parsed_time.ok =>
        parsed_time.year = IF StampYear(text, 2) <= 68
                      THEN 2000 + StampYear(text, 2)
                      ELSE 1900 + StampYear(text, 2)

\* the parts of C24 on 4-digit years: the example, and day before month
FourDigitYearDayFirst ==
    prog = "timestamp" /\ pc = "done" /\ StampShape(text, 4) =>
        /\ StampMonth(text) <= 12 =>
              /\ parsed_time.ok = ValidDateTime(StampYear(text, 4),
                    StampMonth(text), StampDay(text), StampHour(text, 4),
                    StampMinute(text, 4), 0, 0)
              /\ parsed_time.ok =>
                    /\ parsed_time.day = StampDay(text)
                    /\ parsed_time.month = StampMonth(text)
                    /\ parsed_time.year = StampYear(text, 4)
                    /\ parsed_time.hour = StampHour(text, 4)
                    /\ parsed_time.minute = StampMinute(text, 4)

\* C24: "15/03/2023, 14:30" parses to 15 March 2023, 14:30; a timestamp
\* with a 2-digit year yy resolves to the year 2000 + yy; a date valid as
\* day/month and as month/day is read day first.
C24_TimestampParsing ==
    prog = "timestamp" /\ pc = "done" =>
        /\ text = T0 =>
              parsed_time = datetime(2023, 3, 15, 14, 30, 0, 0)
        /\ StampShape(text, 2) /\ parsed_time.ok =>
              parsed_time.year = 2000 + StampYear(text, 2)
        /\ (\E n \in {2, 4} : StampShape(text, n))
              /\ StampMonth(text) <= 12 /\ parsed_time.ok =>
              parsed_time.day = StampDay(text) /\ parsed_time.month = StampMonth(text)

\* C25: in create_vector_database_with_logging of rag.py a failed append
\* of a batch does not end the run: once the run is over every batch after
\* the first was submitted, and the store handle is returned.
C25_RagAppendFailureSkipped ==
    prog \in RagIngest /\ pc = "done" /\ calls[1].ok =>
        /\ returned = [value |-> Chroma]
        /\ Len(calls) = Max(1, (Len(documents) + RagBatch - 1) \div RagBatch)

\* what the code does: the first failed call is the last call of the run,
\* and the run ends with the exception
RagFailureAborts ==
    prog \in RagIngest =>
        /\ \A k \in 1..Len(calls) : ~calls[k].ok => k = Len(calls)
        /\ pc = "done" =>
              (returned = [value |-> "raised"]) =
              (\E k \in 1..Len(calls) : ~calls[k].ok)

\* a run of rag.py that ended on a failed append with batches left
RagAbortedMidway ==
    /\ prog \in RagIngest
    /\ pc = "done"
    /\ Len(calls) >= 2
    /\ ~calls[Len(calls)].ok
    /\ Len(calls) * RagBatch < Len(documents)

\* the creation call of the run was made and failed
CreationFailed == Len(calls) >= 1 /\ ~calls[1].ok

\* C26: when the creation call of the first batch fails, no append call is
\* made, the store stays empty and no handle is returned:
\* create_whatsapp_database returns None; in app.py the exception leaves
\* create_vector_database_with_logging, and initialize_chatbot_sync
\* returns False with initialization_error set and chatbot None.
C26_CreationFailureAborts ==
    CreationFailed /\ prog \in TesteIngest \cup AppIngest =>
        /\ Len(calls) = 1
        /\ store = << >>
        /\ vector_db = NoHandle
        /\ pc = "done"
        /\ prog \in TesteIngest => returned = NoHandle
        /\ prog \in AppIngest =>
              /\ returned = [value |-> "raised"]
              /\ prog \in AppServer /\ requests[MainThread].pc # "startup" =>
                    /\ requests[MainThread].success = "False"
                    /\ initialization_error # NoError
                    /\ conversation_stats.error_message = initialization_error
                    /\ chatbot = NoHandle
                    /\ db = NoHandle

\* the startup of app.py is over after a failed creation on a transcript
\* of several batches
C26_Witness ==
    /\ prog \in AppServer
    /\ CreationFailed
    /\ Len(documents) > AppBatch
    /\ requests[MainThread].pc = "returned"

\* create_whatsapp_database returned after a failed creation on a
\* transcript of several batches
C26_WitnessTeste ==
    /\ prog \in TesteIngest
    /\ CreationFailed
    /\ Len(documents) > TesteBatch
    /\ pc = "done"

\* the request threads that are inside initialize_chatbot_sync
Initializing ==
    {t \in RequestThreads :
        requests[t].pc \in {"configure", "database", "test", "create",
                            "chatbot"}}

\* C29: under any interleaving of the requests POST /api/initialize,
\* initialize_chatbot_sync is running in at most one request at a time.
C29_OneInitializationAtATime ==
    Serving => Cardinality(Initializing) <= 1

\* two requests ran initialize_chatbot_sync to its end and each assigned
\* the global chatbot
TwoRequestsAssigned ==
    /\ Serving
    /\ \E t, u \in RequestThreads :
          t # u /\ requests[t].success = "True" /\ requests[u].success = "True"

\* two requests are about to create the vector store, one after the other
\* passed the test of force_initialize
TwoRequestsCreate ==
    /\ Serving
    /\ \E t, u \in RequestThreads :
          t # u /\ requests[t].pc = "create" /\ requests[u].pc = "create"

\* C30: whenever chatbot is not None, db is not None, is_loaded is true,
\* and initialization_error and error_message are None.
C30_StatusFlagsConsistent ==
    prog \in AppServer /\ chatbot # NoHandle =>
        /\ db # NoHandle
        /\ conversation_stats.is_loaded
        /\ initialization_error = NoError
        /\ conversation_stats.error_message = NoError

\* the part of C30 that holds: a chatbot is only ever built on a loaded
\* store
ChatbotHasDatabase ==
    prog \in AppServer /\ chatbot # NoHandle =>
        db # NoHandle /\ conversation_stats.is_loaded

\* a request initialized the chatbot after the startup had failed: the
\* error of the startup is still set
ReadyWithStaleError ==
    /\ Serving
    /\ requests[MainThread].success = "False"
    /\ chatbot # NoHandle
    /\ Cardinality({t \in RequestThreads : requests[t].pc # "idle"}) = 1
    /\ initialization_error # NoError

\* C27: no segment of detect_conversation_boundaries_conservative has more
\* than 101 messages, and the accumulator never holds more than 101: the
\* message that arrives on an accumulator of 101 closes it.
C27_SegmentAtMost101 ==
    prog = "boundaries" =>
        /\ \A k \in 1..Len(conversations) : Len(conversations[k]) <= 101
        /\ Len(current_conversation) <= 101

\* the run is over and emitted a segment of 101 messages
C27_Witness ==
    /\ prog = "boundaries"
    /\ pc = "done"
    /\ \E k \in 1..Len(conversations) : Len(conversations[k]) = 101

\* C28: in the simple mode of rag.py a window is closed as soon as it has
\* more than 20 messages, so every document is built from 3 to 21
\* messages, whatever the timestamps of the records are.
C28_RagWindowBounded ==
    prog = "rag" =>
        /\ Len(conversation_window) <= 21
        /\ \A k \in 1..Len(documents) :
              documents[k].metadata.message_count.v \in 3..21

\* what holds whatever the timestamps: a document has at least 3 messages
RagWindowAtLeast3 ==
    prog = "rag" =>
        \A k \in 1..Len(documents) :
            documents[k].metadata.message_count.v >= 3

\* what holds of the transcripts whose kept records all carry a timestamp
RagWindowBoundedWithTimestamps ==
    prog = "rag" /\ (\A k \in 1..Len(data) :
                        SimpleKept(data[k]) => data[k].timestamp # << >>) =>
        /\ Len(conversation_window) <= 21
        /\ \A k \in 1..Len(documents) :
              documents[k].metadata.message_count.v \in 3..21

\* a finished run of rag.py whose records carry timestamps emitted a
\* document of 21 messages
RagWindowOf21 ==
    /\ prog = "rag"
    /\ pc = "done"
    /\ \A k \in 1..Len(data) : data[k].timestamp # << >>
    /\ \E k \in 1..Len(documents) :
          documents[k].metadata.message_count.v = 21

\* a finished run of rag.py on records without timestamp emitted a
\* document of more than 21 messages
RagWindowOver21 ==
    /\ prog = "rag"
    /\ pc = "done"
    /\ \E k \in 1..Len(documents) :
          documents[k].metadata.message_count.v > 21

====
